---- MODULE Spec2Model ----
(***************************************************************************)
(* rfocxt: focal-context extraction.  The model follows                     *)
(* src/analysis/parse_context.rs (closure worklist, direct and indirect    *)
(* assembly passes, output emission), src/analysis/syn_file.rs (the        *)
(* rendered buckets and the body-retention heuristic) and                   *)
(* src/analysis/mod_context.rs (the declaration model).                     *)
(*                                                                         *)
(* Qualified names are strings.  Source text ("codes") is a record of the  *)
(* parts the program looks at after parsing it with syn: the signature,    *)
(* the declared return type, the statements of the body, and whether the   *)
(* text parses at all.                                                      *)
(***************************************************************************)
EXTENDS Naturals, Sequences, FiniteSets, TLC

VARIABLES
    mod_contexts,   \* the Module list handed to ParseContext (read-only input)
    pc,             \* position of parse_context()
    entry,          \* index of the entry point being processed
    direct,         \* direct_applications of the current entry point
    indirect,       \* indirect_applications of the current entry point
    left,           \* left_applications: the closure worklist
    todo,           \* names an assembly pass has still to visit
    syn_files,      \* Vec<SynFile> of the current entry point
    after_direct,   \* history: syn_files as the direct pass left them
    text,           \* to_string(&syn_files) of the current entry point
    name_map,       \* BTreeMap<String, String> accumulated over the run
    files,          \* the output directory: file name -> content
    written,        \* history: entry points whose context file was written
    map_writes,     \* history: number of times the name map document was written
    failed,         \* history: what the run was writing when an I/O call failed
    building,       \* the ModContext the front end is filling, None outside the walk
    added,          \* history: the add_* calls made on building, in order
    dump_writes,    \* history: number of times the dump of the Module list was written
    removed,        \* history: the output directory of a previous run was removed
    mod_stack,      \* HirVisitor::mod_contexts: the modules that are open, outermost first
    entered         \* history: the names of the modules in the order they were entered

vars == <<mod_contexts, pc, entry, direct, indirect, left, todo, syn_files,
          after_direct, text, name_map, files, written, map_writes, failed,
          building, added, dump_writes, removed, mod_stack, entered>>

----------------------------------------------------------------------------
(* Bounds of the checked input space. *)

\* at most this many optional reference edges are present in one program
MaxEdges == 2

----------------------------------------------------------------------------
(* Qualified names and their order.                                        *)
(* BTreeSet<String> orders names lexicographically by bytes; NameOrder     *)
(* lists the names of the checked programs in that order.                  *)

NameOrder ==
    << "c::E", "c::Point", "c::Tr", "c::Tr::tm",
       "c::a::E", "c::a::U", "c::a::h",
       "c::a::{impl#0}", "c::a::{impl#0}::helper", "c::a::{impl#0}::new",
       "c::a::{impl#0}::reset", "c::a::{impl#0}::tm",
       "c::a::{impl#1}", "c::a::{impl#1}::tm",
       "c::f", "c::g",
       "c::{impl#0}", "c::{impl#0}::helper", "c::{impl#0}::new",
       "c::{impl#0}::reset",
       "std::X" >>

Rank(n) == CHOOSE i \in DOMAIN NameOrder : NameOrder[i] = n

\* BTreeSet::pop_first / first element of BTreeSet::iter
First(S) == CHOOSE n \in S : \A m \in S : Rank(n) <= Rank(m)

\* Option<T>
None == << >>
Some(x) == << x >>
IsSome(o) == o # << >>

Range(s) == { s[i] : i \in DOMAIN s }

----------------------------------------------------------------------------
(* The checked programs.                                                   *)
(*                                                                         *)
(* The front end (hir_visitor.rs) hands over the modules in the order in   *)
(* which they are closed: the child module c::a before the crate root c.   *)
(* Every program has the free functions c::f, c::g, c::a::h, the record    *)
(* c::Point, the enum c::a::E, the union c::a::U, the interface c::Tr with *)
(* the default method tm, and one inherent implementation block for        *)
(* c::Point with the methods new() -> Point and helper() -> i32.  The      *)
(* programs differ in their reference edges, in the module that holds the  *)
(* implementation block, and in which source text fails to re-parse.       *)

ImplName(layout) == IF layout = "same" THEN "c::{impl#0}" ELSE "c::a::{impl#0}"

QName(id, layout) ==
    CASE id = "f"      -> "c::f"
      [] id = "g"      -> "c::g"
      [] id = "h"      -> "c::a::h"
      [] id = "Point"  -> "c::Point"
      [] id = "E"      -> "c::a::E"
      [] id = "U"      -> "c::a::U"
      [] id = "Tr"     -> "c::Tr"
      [] id = "tm"     -> "c::Tr::tm"
      [] id = "new"    -> ImplName(layout) \o "::new"
      [] id = "helper" -> ImplName(layout) \o "::helper"
      [] id = "X"      -> "std::X"

\* optional reference edges <<referencing declaration or module, referenced name>>
Edges ==
    { <<"f", "g">>, <<"g", "h">>, <<"g", "f">>, <<"h", "h">>,
      <<"f", "Point">>, <<"f", "tm">>, <<"tm", "h">>,
      <<"f", "new">>, <<"f", "helper">>, <<"helper", "h">>,
      <<"Point", "E">>, <<"E", "h">>, <<"f", "U">>, <<"U", "h">>,
      <<"f", "Tr">>, <<"Tr", "h">>, <<"impl", "h">>,
      <<"mod_c", "g">>, <<"f", "X">> }

\* <<layout, declarations whose recorded source text does not re-parse>>
Variants ==
    { << "same", {} >>, << "child", {} >>, << "same", { "h" } >>,
      << "same", { "helper" } >> }

\* references the front end always records (hir_visitor.rs:505, 658; the
\* return type of new() is collected by parse_fn_decl)
Base(id, layout) ==
    CASE id = "Tr"   -> { "c::Tr" }
      [] id = "impl" -> { "c::Point" }
      [] id = "new"  -> { "c::Point" }
      [] OTHER       -> {}

Apps(id, edges, layout) ==
    Base(id, layout) \cup { QName(e[2], layout) : e \in { x \in edges : x[1] = id } }

\* source text of a function or method: signature, declared return type
\* (None: no "-> T" written), statements of the body
FnCodes(sig, output, stmts, valid) ==
    [sig |-> sig, output |-> output, stmts |-> stmts, valid |-> valid]

\* source text of an interface method: default is None for "fn m();"
TraitFnCodes(sig, output, default, valid) ==
    [sig |-> sig, output |-> output, default |-> default, valid |-> valid]

\* source text of any other declaration
Codes(t, valid) == [text |-> t, valid |-> valid]

FnItem(id, output, edges, layout, bad) ==
    [name |-> QName(id, layout),
     codes |-> FnCodes("fn " \o id, output, << "stmt_" \o id >>, id \notin bad),
     applications |-> Apps(id, edges, layout)]

DataItem(id, kw, edges, layout, bad) ==
    [name |-> QName(id, layout),
     codes |-> Codes(kw \o " " \o id, id \notin bad),
     derives |-> {},
     applications |-> Apps(id, edges, layout)]

\* StructItem spells its reference set "applcaitions" (mod_context.rs:148)
StructItem(id, edges, layout, bad) ==
    [name |-> QName(id, layout),
     codes |-> Codes("struct " \o id, id \notin bad),
     derives |-> {},
     applcaitions |-> Apps(id, edges, layout)]

TraitItem(edges, layout, bad) ==
    [name |-> "c::Tr",
     codes |-> Codes("trait Tr", "Tr" \notin bad),
     types |-> << Codes("type Out;", TRUE) >>,
     consts |-> << >>,
     fns |-> << [name |-> "c::Tr::tm",
                 codes |-> TraitFnCodes("fn tm", None, Some(<< "stmt_tm" >>),
                                        "tm" \notin bad),
                 applications |-> Apps("tm", edges, layout)] >>,
     applications |-> Apps("Tr", edges, layout)]

\* InnerFnItem sets are ordered by name: helper before new
ImplItem(edges, layout, bad) ==
    [name |-> ImplName(layout),
     struct_name |-> "c::Point",
     trait_name |-> None,
     codes |-> Codes("impl Point", "impl" \notin bad),
     types |-> << >>,
     consts |-> << Codes("const ORIGIN", TRUE) >>,
     fns |-> << FnItem("helper", Some({ "i32" }), edges, layout, bad),
                FnItem("new", Some({ "Point" }), edges, layout, bad) >>,
     applications |-> Apps("impl", edges, layout)]

EmptyMod(name) ==
    [name |-> name, uses |-> << >>, statics |-> << >>, consts |-> << >>,
     fns |-> << >>, macors |-> << >>, ty_aliases |-> << >>, opaque_tys |-> << >>,
     enums |-> << >>, structs |-> << >>, unions |-> << >>, traits |-> << >>,
     trait_aliases |-> << >>, impls |-> << >>, applications |-> {}]

ModA(edges, layout, bad) ==
    [EmptyMod("c::a") EXCEPT
        !.statics = << Codes("static S", TRUE) >>,
        !.fns = << FnItem("h", None, edges, layout, bad) >>,
        !.enums = << DataItem("E", "enum", edges, layout, bad) >>,
        !.unions = << DataItem("U", "union", edges, layout, bad) >>,
        !.impls = IF layout = "child" THEN << ImplItem(edges, layout, bad) >>
                  ELSE << >>]

ModC(edges, layout, bad) ==
    [EmptyMod("c") EXCEPT
        !.uses = << Codes("use std::X;", TRUE) >>,
        !.fns = << FnItem("f", None, edges, layout, bad),
                   FnItem("g", None, edges, layout, bad) >>,
        !.structs = << StructItem("Point", edges, layout, bad) >>,
        !.traits = << TraitItem(edges, layout, bad) >>,
        !.impls = IF layout = "same" THEN << ImplItem(edges, layout, bad) >>
                  ELSE << >>,
        !.applications = Apps("mod_c", edges, layout)]

Program(edges, layout, bad) ==
    << ModA(edges, layout, bad), ModC(edges, layout, bad) >>

Programs ==
    { Program(edges, v[1], v[2]) :
        edges \in { S \in SUBSET Edges : Cardinality(S) <= MaxEdges },
        v \in Variants }

----------------------------------------------------------------------------
(* Closure computation: parse_direct_applications (the free function).     *)

RECURSIVE Flatten(_)
Flatten(ss) == IF ss = << >> THEN << >> ELSE Head(ss) \o Flatten(Tail(ss))

\* the reference sets of the elements of one collection that are named app
NamedRefs(items, app) ==
    UNION { items[i].applications : i \in { j \in DOMAIN items : items[j].name = app } }

\* StructItem keeps its references in the field applcaitions
StructRefs(items, app) ==
    UNION { items[i].applcaitions : i \in { j \in DOMAIN items : items[j].name = app } }

\* parse_context.rs:72-86: an implementation block is matched by its target
\* type, by the interface it implements and by each of its methods
ImplRefs(impl_item, app) ==
    (IF impl_item.struct_name = app THEN impl_item.applications ELSE {})
    \cup (IF IsSome(impl_item.trait_name) /\ impl_item.trait_name[1] = app
          THEN impl_item.applications ELSE {})
    \cup NamedRefs(impl_item.fns, app)

\* parse_context.rs:46-87: what the closure enqueues for one visited name.
\* An interface is matched by its own name only (lines 67-71).
ClosureRefs(mods, app) ==
    UNION { NamedRefs(mods[i].fns, app)
            \cup NamedRefs(mods[i].enums, app)
            \cup StructRefs(mods[i].structs, app)
            \cup NamedRefs(mods[i].unions, app)
            \cup NamedRefs(mods[i].traits, app)
            \cup UNION { ImplRefs(mods[i].impls[k], app) : k \in DOMAIN mods[i].impls }
          : i \in DOMAIN mods }

\* a worklist step that enqueues the references of every popped name
ClosurePopNoVisitedCheck(mods, l, ind) ==
    LET application == First(l)
    IN  [left |-> (l \ { application }) \cup ClosureRefs(mods, application),
         indirect |-> ind \cup { application }]

\* a worklist step that also enqueues the references every module records
ClosurePopWithModRefs(mods, l, ind) ==
    LET application == First(l)
        rest == l \ { application }
    IN  IF application \notin ind
        THEN [left |-> rest \cup ClosureRefs(mods, application)
                       \cup UNION { mods[i].applications : i \in DOMAIN mods },
              indirect |-> ind \cup { application }]
        ELSE [left |-> rest, indirect |-> ind]

\* parse_context.rs:43-88: one iteration of the worklist loop
ClosurePop(mods, l, ind) ==
    LET application == First(l)
        rest == l \ { application }
    IN  IF application \notin ind
        THEN [left |-> rest \cup ClosureRefs(mods, application),
              indirect |-> ind \cup { application }]
        ELSE [left |-> rest, indirect |-> ind]

----------------------------------------------------------------------------
(* syn: parsing recorded source text.  Every parse_str::<T>(codes) yields  *)
(* Err for text that is not valid, and otherwise the parts of the syntax   *)
(* tree the program reads or changes.                                      *)

\* a parser that accepts every text
ParseFnAcceptsAll(codes) ==
    Some([sig |-> [ident |-> codes.sig, output |-> codes.output],
          block |-> codes.stmts])

\* parse_str::<ItemFn> and parse_str::<ImplItemFn>
ParseFn(codes) ==
    IF codes.valid
    THEN Some([sig |-> [ident |-> codes.sig, output |-> codes.output],
               block |-> codes.stmts])
    ELSE None

\* parse_str::<TraitItemFn>
ParseTraitFn(codes) ==
    IF codes.valid
    THEN Some([sig |-> [ident |-> codes.sig, output |-> codes.output],
               default |-> codes.default])
    ELSE None

\* parse_str of a declaration without a body the program touches
ParseItem(codes) == IF codes.valid THEN Some([text |-> codes.text]) ELSE None

\* the items of a collection that parse, in order
ParsedItems(items) ==
    Flatten([i \in DOMAIN items |->
                IF items[i].valid THEN << [item |-> ParseItem(items[i])[1]] >>
                ELSE << >>])

\* struct_name.split("::").last()
LastSegment(name) ==
    CASE name = "c::Point" -> "Point"
      [] name = "c::a::E"  -> "E"
      [] name = "c::a::U"  -> "U"
      [] OTHER             -> name

\* format!("{:#?}", ty) of a declared return type: the identifiers written in
\* the type together with the words syn's Debug output is made of.  None of
\* these words has "Self" or the last segment of a checked target type as a
\* part, so String::contains is membership.
TypeDebug(ty) ==
    ty \cup { "Type::Path", "qself", "None", "path", "Path", "leading_colon",
              "segments", "PathSegment", "ident", "Ident", "arguments",
              "PathArguments::None" }

\* syn_file.rs:361-369: the body of a method is cleared when it declares a
\* return type that mentions neither Self nor the target type
DemotedAlways(item_impl_fn, struct_name) ==
    [item_impl_fn EXCEPT !.block = << >>]

Demoted(item_impl_fn, struct_name) ==
    IF IsSome(item_impl_fn.sig.output)
    THEN LET output == TypeDebug(item_impl_fn.sig.output[1])
         IN  IF ~ ( "Self" \in output \/ LastSegment(struct_name) \in output )
             THEN [item_impl_fn EXCEPT !.block = << >>]
             ELSE item_impl_fn
    ELSE item_impl_fn

\* syn_file.rs:195-245 TraitSynItem::from_trait_item
FromTraitItem(trait_item) ==
    IF trait_item.codes.valid
    THEN Some([name |-> trait_item.name,
               item |-> [text |-> trait_item.codes.text, items |-> << >>],
               types |-> ParsedItems(trait_item.types),
               consts |-> ParsedItems(trait_item.consts),
               fns |-> Flatten([i \in DOMAIN trait_item.fns |->
                         LET parsed == ParseTraitFn(trait_item.fns[i].codes)
                         IN  IF IsSome(parsed)
                             THEN << [name |-> trait_item.fns[i].name,
                                      item |-> IF IsSome(parsed[1].default)
                                               THEN [parsed[1] EXCEPT
                                                        !.default = Some(<< >>)]
                                               ELSE parsed[1]] >>
                             ELSE << >>])])
    ELSE None

\* syn_file.rs:328-388 ImplSynItem::from_impl_item
FromImplItem(impl_item) ==
    IF impl_item.codes.valid
    THEN Some([name |-> impl_item.name,
               struct_name |-> impl_item.struct_name,
               trait_name |-> impl_item.trait_name,
               item |-> [text |-> impl_item.codes.text, items |-> << >>],
               types |-> ParsedItems(impl_item.types),
               consts |-> ParsedItems(impl_item.consts),
               fns |-> Flatten([i \in DOMAIN impl_item.fns |->
                         LET parsed == ParseFn(impl_item.fns[i].codes)
                         IN  IF IsSome(parsed)
                             THEN << [name |-> impl_item.fns[i].name,
                                      item |-> Demoted(parsed[1],
                                                       impl_item.struct_name)] >>
                             ELSE << >>])])
    ELSE None

\* replace the item of the first member named name (the loops with break at
\* parse_context.rs:198-203, 250-255 and syn_file.rs:253-258, 395-400)
ReplaceFirst(fns, name, item) ==
    IF \E i \in DOMAIN fns : fns[i].name = name
    THEN LET k == CHOOSE i \in DOMAIN fns :
                     /\ fns[i].name = name
                     /\ \A j \in DOMAIN fns : fns[j].name = name => i <= j
         IN  [fns EXCEPT ![k] = [name |-> fns[k].name, item |-> item]]
    ELSE fns

RECURSIVE MergeFns(_, _)
\* the members of kept, in order, each replacing the member of its name
MergeFns(self_fns, kept) ==
    IF kept = << >> THEN self_fns
    ELSE MergeFns(ReplaceFirst(self_fns, Head(kept).name, Head(kept).item),
                  Tail(kept))

\* syn_file.rs:247-261 TraitSynItem::add_direct_application_trait: only
\* members with a default body that has statements are taken over
AddDirectApplicationTrait(self, other) ==
    LET kept == Flatten([i \in DOMAIN other.fns |->
                    IF /\ IsSome(other.fns[i].item.default)
                       /\ other.fns[i].item.default[1] # << >>
                    THEN << other.fns[i] >> ELSE << >>])
    IN  [self EXCEPT !.fns = MergeFns(self.fns, kept)]

\* a merge that takes over every member of the other version
AddDirectApplicationImplTakeAll(self, other) ==
    [self EXCEPT !.fns = MergeFns(self.fns, other.fns)]

\* syn_file.rs:390-402 ImplSynItem::add_direct_application_impl: only
\* members whose body has statements are taken over
AddDirectApplicationImpl(self, other) ==
    LET kept == Flatten([i \in DOMAIN other.fns |->
                    IF other.fns[i].item.block # << >>
                    THEN << other.fns[i] >> ELSE << >>])
    IN  [self EXCEPT !.fns = MergeFns(self.fns, kept)]

\* syn_file.rs:483-558 SynFile::new: the simple declarations of the module
\* that parse; opaque types are appended to the aliases
SynFileNew(mod_context) ==
    [name |-> mod_context.name,
     uses |-> ParsedItems(mod_context.uses),
     statics |-> ParsedItems(mod_context.statics),
     consts |-> ParsedItems(mod_context.consts),
     fns |-> << >>,
     macros |-> ParsedItems(mod_context.macors),
     ty_aliases |-> ParsedItems(mod_context.ty_aliases)
                    \o ParsedItems(mod_context.opaque_tys),
     enums |-> << >>, structs |-> << >>, unions |-> << >>, traits |-> << >>,
     trait_aliases |-> ParsedItems(mod_context.trait_aliases),
     impls |-> << >>]

----------------------------------------------------------------------------
(* Symbol lookup: get_direct_item and get_indirect_item.  Both walk the    *)
(* modules in order and, inside a module, the functions, enums, records,   *)
(* unions, interfaces (an interface, then its methods) and implementation  *)
(* blocks (target type, implemented interface, methods), and return at the *)
(* first declaration that matches, with None when its text does not parse. *)

When(cond, x) == IF cond THEN << x >> ELSE << >>

Found(mod_context, kind, item) ==
    Some([mod_name |-> mod_context.name, app |-> [kind |-> kind, item |-> item]])

\* parse_context.rs:111-126 (full == TRUE) and 273-289 (full == FALSE, the
\* statements of the body are cleared)
FnMatch(m, fn_item, full) ==
    LET parsed == ParseFn(fn_item.codes)
    IN  IF IsSome(parsed)
        THEN Found(m, "Fn", [name |-> fn_item.name,
                             item |-> IF full THEN parsed[1]
                                      ELSE [parsed[1] EXCEPT !.block = << >>]])
        ELSE None

\* parse_context.rs:127-174 and 290-337
DataMatch(m, kind, data_item) ==
    LET parsed == ParseItem(data_item.codes)
    IN  IF IsSome(parsed)
        THEN Found(m, kind, [name |-> data_item.name, item |-> parsed[1]])
        ELSE None

\* parse_context.rs:176-186 and 339-349
TraitMatch(m, trait_item) ==
    LET trait_syn_item == FromTraitItem(trait_item)
    IN  IF IsSome(trait_syn_item) THEN Found(m, "Trait", trait_syn_item[1]) ELSE None

\* parse_context.rs:187-213 (full == TRUE: the named method is put back with
\* its default body) and 350-362 (full == FALSE)
TraitFnMatch(m, trait_item, trait_fn, full) ==
    LET trait_syn_item == FromTraitItem(trait_item)
        parsed == ParseTraitFn(trait_fn.codes)
    IN  IF IsSome(trait_syn_item)
        THEN IF full /\ IsSome(parsed)
             THEN Found(m, "Trait",
                        [trait_syn_item[1] EXCEPT
                            !.fns = ReplaceFirst(@, trait_fn.name, parsed[1])])
             ELSE Found(m, "Trait", trait_syn_item[1])
        ELSE None

\* parse_context.rs:216-239 and 365-388
ImplMatch(m, impl_item) ==
    LET impl_syn_item == FromImplItem(impl_item)
    IN  IF IsSome(impl_syn_item) THEN Found(m, "Impl", impl_syn_item[1]) ELSE None

\* parse_context.rs:240-265 (full == TRUE: the named method is put back with
\* its body) and 389-401 (full == FALSE)
ImplFnMatch(m, impl_item, impl_fn, full) ==
    LET impl_syn_item == FromImplItem(impl_item)
        parsed == ParseFn(impl_fn.codes)
    IN  IF IsSome(impl_syn_item)
        THEN IF full /\ IsSome(parsed)
             THEN Found(m, "Impl",
                        [impl_syn_item[1] EXCEPT
                            !.fns = ReplaceFirst(@, impl_fn.name, parsed[1])])
             ELSE Found(m, "Impl", impl_syn_item[1])
        ELSE None

\* the matches of one module, in the order in which the code meets them
ModMatches(m, app, full) ==
    Flatten([i \in DOMAIN m.fns |->
                When(m.fns[i].name = app, FnMatch(m, m.fns[i], full))])
    \o Flatten([i \in DOMAIN m.enums |->
                When(m.enums[i].name = app, DataMatch(m, "Enum", m.enums[i]))])
    \o Flatten([i \in DOMAIN m.structs |->
                When(m.structs[i].name = app, DataMatch(m, "Struct", m.structs[i]))])
    \o Flatten([i \in DOMAIN m.unions |->
                When(m.unions[i].name = app, DataMatch(m, "Union", m.unions[i]))])
    \o Flatten([i \in DOMAIN m.traits |->
                When(m.traits[i].name = app, TraitMatch(m, m.traits[i]))
                \o Flatten([j \in DOMAIN m.traits[i].fns |->
                        When(m.traits[i].fns[j].name = app,
                             TraitFnMatch(m, m.traits[i], m.traits[i].fns[j], full))])])
    \o Flatten([i \in DOMAIN m.impls |->
                When(m.impls[i].struct_name = app, ImplMatch(m, m.impls[i]))
                \o When(IsSome(m.impls[i].trait_name)
                            /\ m.impls[i].trait_name[1] = app,
                        ImplMatch(m, m.impls[i]))
                \o Flatten([j \in DOMAIN m.impls[i].fns |->
                        When(m.impls[i].fns[j].name = app,
                             ImplFnMatch(m, m.impls[i], m.impls[i].fns[j], full))])])

\* all matches of a name over the module list, in order
AllMatches(mods, app, full) ==
    Flatten([i \in DOMAIN mods |-> ModMatches(mods[i], app, full)])

\* parse_context.rs:109-269
GetDirectItem(mods, app) ==
    LET all == AllMatches(mods, app, TRUE)
    IN  IF all = << >> THEN None ELSE Head(all)

\* a lookup for the indirect pass that leaves bodies as the direct pass does
GetIndirectItemKeepsBodies(mods, app) ==
    LET all == AllMatches(mods, app, TRUE)
    IN  IF all = << >> THEN None ELSE Head(all)

\* parse_context.rs:271-405
GetIndirectItem(mods, app) ==
    LET all == AllMatches(mods, app, FALSE)
    IN  IF all = << >> THEN None ELSE Head(all)

----------------------------------------------------------------------------
(* Context assembly: the methods parse_direct_applications and             *)
(* parse_indirect_applications of ParseContext.                            *)

HasName(items, name) == \E i \in DOMAIN items : items[i].name = name

FirstNamed(items, name) ==
    CHOOSE i \in DOMAIN items :
        /\ items[i].name = name
        /\ \A j \in DOMAIN items : items[j].name = name => i <= j

\* parse_context.rs:471-490 and 594-613: Vec::push by kind
PushItem(syn_file, app) ==
    CASE app.kind = "Fn"     -> [syn_file EXCEPT !.fns = Append(@, app.item)]
      [] app.kind = "Enum"   -> [syn_file EXCEPT !.enums = Append(@, app.item)]
      [] app.kind = "Struct" -> [syn_file EXCEPT !.structs = Append(@, app.item)]
      [] app.kind = "Union"  -> [syn_file EXCEPT !.unions = Append(@, app.item)]
      [] app.kind = "Trait"  -> [syn_file EXCEPT !.traits = Append(@, app.item)]
      [] app.kind = "Impl"   -> [syn_file EXCEPT !.impls = Append(@, app.item)]

\* parse_context.rs:422-461: insertion into the bucket that exists already;
\* an interface or implementation shell of the same name is merged into
DirectInto(syn_file, app) ==
    CASE app.kind = "Trait" /\ HasName(syn_file.traits, app.item.name) ->
            LET k == FirstNamed(syn_file.traits, app.item.name)
            IN  [syn_file EXCEPT
                    !.traits[k] = AddDirectApplicationTrait(@, app.item)]
      [] app.kind = "Impl" /\ HasName(syn_file.impls, app.item.name) ->
            LET k == FirstNamed(syn_file.impls, app.item.name)
            IN  [syn_file EXCEPT
                    !.impls[k] = AddDirectApplicationImpl(@, app.item)]
      [] OTHER -> PushItem(syn_file, app)

\* the collection of a bucket that holds declarations of the kind of app
KindItems(syn_file, app) ==
    CASE app.kind = "Fn"     -> syn_file.fns
      [] app.kind = "Enum"   -> syn_file.enums
      [] app.kind = "Struct" -> syn_file.structs
      [] app.kind = "Union"  -> syn_file.unions
      [] app.kind = "Trait"  -> syn_file.traits
      [] app.kind = "Impl"   -> syn_file.impls

\* an insertion of the indirect pass that does not look for the name
IndirectIntoAlwaysPush(syn_file, app) == PushItem(syn_file, app)

\* parse_context.rs:511-584: insertion into the bucket that exists already,
\* only when the bucket holds no declaration of that kind and name
IndirectInto(syn_file, app) ==
    IF HasName(KindItems(syn_file, app), app.item.name)
    THEN syn_file
    ELSE PushItem(syn_file, app)

\* parse_context.rs:418-496 and 507-619 around the insertion: the first
\* bucket of the owning module, or a new bucket made from the first module
\* of that name and pushed at the end
Place(mods, files_, found, direct_pass) ==
    LET mod_name == found.mod_name
        app == found.app
    IN  IF \E i \in DOMAIN files_ : files_[i].name = mod_name
        THEN LET k == FirstNamed(files_, mod_name)
             IN  [files_ EXCEPT ![k] = IF direct_pass THEN DirectInto(@, app)
                                       ELSE IndirectInto(@, app)]
        ELSE IF \E i \in DOMAIN mods : mods[i].name = mod_name
             THEN Append(files_,
                         PushItem(SynFileNew(mods[FirstNamed(mods, mod_name)]), app))
             ELSE files_

\* parse_context.rs:412-497: one iteration of the loop over directSet
DirectStepOf(mods, files_, application) ==
    LET syn_application == GetDirectItem(mods, application)
    IN  IF IsSome(syn_application)
        THEN Place(mods, files_, syn_application[1], TRUE)
        ELSE files_

\* an iteration that opens an empty bucket for a name it cannot resolve
IndirectStepOfBucketsUnresolved(mods, files_, application) ==
    LET syn_application == GetIndirectItem(mods, application)
    IN  IF IsSome(syn_application)
        THEN Place(mods, files_, syn_application[1], FALSE)
        ELSE Append(files_, SynFileNew(EmptyMod(application)))

\* parse_context.rs:505-620: one iteration of the loop over indirectSet
IndirectStepOf(mods, files_, application) ==
    LET syn_application == GetIndirectItem(mods, application)
    IN  IF IsSome(syn_application)
        THEN Place(mods, files_, syn_application[1], FALSE)
        ELSE files_

----------------------------------------------------------------------------
(* Rendering: SynFile::to_string and to_string.                            *)

\* to_item of a function, record, enum, union, import, ...: the syn item
\* without the qualified name it was filed under
ToItems(kind, items) == [i \in DOMAIN items |-> [kind |-> kind, item |-> items[i].item]]

\* syn_file.rs:263-277 and 404-417: the members are put back into the shell
CompoundToItems(kind, items) ==
    [i \in DOMAIN items |->
        [kind |-> kind,
         item |-> [items[i].item EXCEPT
                      !.items = ToItems("type", items[i].types)
                                \o ToItems("const", items[i].consts)
                                \o ToItems("fn", items[i].fns)]]]

\* a rendering that puts the type declarations before the functions
SynFileToStringTypesFirst(syn_file) ==
    ToItems("use", syn_file.uses)
    \o ToItems("static", syn_file.statics)
    \o ToItems("const", syn_file.consts)
    \o ToItems("enum", syn_file.enums)
    \o ToItems("struct", syn_file.structs)
    \o ToItems("union", syn_file.unions)
    \o ToItems("fn", syn_file.fns)
    \o ToItems("macro", syn_file.macros)
    \o ToItems("type", syn_file.ty_aliases)
    \o CompoundToItems("trait", syn_file.traits)
    \o ToItems("trait_alias", syn_file.trait_aliases)
    \o CompoundToItems("impl", syn_file.impls)

\* syn_file.rs:560-599: the kinds in their fixed order
SynFileToString(syn_file) ==
    ToItems("use", syn_file.uses)
    \o ToItems("static", syn_file.statics)
    \o ToItems("const", syn_file.consts)
    \o ToItems("fn", syn_file.fns)
    \o ToItems("macro", syn_file.macros)
    \o ToItems("type", syn_file.ty_aliases)
    \o ToItems("enum", syn_file.enums)
    \o ToItems("struct", syn_file.structs)
    \o ToItems("union", syn_file.unions)
    \o CompoundToItems("trait", syn_file.traits)
    \o ToItems("trait_alias", syn_file.trait_aliases)
    \o CompoundToItems("impl", syn_file.impls)

\* parse_context.rs:723-730: a comment line with the module name, then the
\* module's declarations
to_string(files_) ==
    Flatten([i \in DOMAIN files_ |->
                << [kind |-> "comment", item |-> [text |-> files_[i].name]] >>
                \o SynFileToString(files_[i])])

----------------------------------------------------------------------------
(* One entry point from its seed set alone: the calls of                   *)
(* parse_context.rs:631-641 on fresh sets and a fresh Vec<SynFile>.        *)

RECURSIVE ClosureOf(_, _, _)
\* parse_context.rs:36-90: the worklist loop run to its end
ClosureOf(mods, l, ind) ==
    IF l = {} THEN ind
    ELSE LET next == ClosurePop(mods, l, ind)
         IN  ClosureOf(mods, next.left, next.indirect)

RECURSIVE AssembleOf(_, _, _, _)
\* parse_context.rs:407-498 (direct_pass) and 500-621: a pass over a set
AssembleOf(mods, files_, names, direct_pass) ==
    IF names = {} THEN files_
    ELSE LET application == First(names)
         IN  AssembleOf(mods,
                        IF direct_pass
                        THEN DirectStepOf(mods, files_, application)
                        ELSE IndirectStepOf(mods, files_, application),
                        names \ { application }, direct_pass)

\* parse_context.rs:631-641: closure, direct pass, indirect pass, rendering
ContextOf(mods, seeds) ==
    to_string(AssembleOf(mods, AssembleOf(mods, << >>, seeds, TRUE),
                         ClosureOf(mods, seeds, {}), FALSE))

----------------------------------------------------------------------------
(* Output emission: ParseContext::parse_context.                           *)

\* the entry points of a module if only the loop over its free functions ran
ModEntriesFnsOnly(m) ==
    [j \in DOMAIN m.fns |->
        [name |-> m.fns[j].name,
         seeds |-> { m.fns[j].name } \cup m.fns[j].applications
                   \cup m.applications]]

\* the entry points of a module if the references of the enclosing
\* interface or implementation block were left out of the seed sets
ModEntriesNoEnclosing(m) ==
    [j \in DOMAIN m.fns |->
        [name |-> m.fns[j].name,
         seeds |-> { m.fns[j].name } \cup m.fns[j].applications
                   \cup m.applications]]
    \o Flatten([t \in DOMAIN m.traits |->
        [j \in DOMAIN m.traits[t].fns |->
            [name |-> m.traits[t].fns[j].name,
             seeds |-> { m.traits[t].fns[j].name }
                       \cup m.traits[t].fns[j].applications
                       \cup m.applications]]])
    \o Flatten([t \in DOMAIN m.impls |->
        [j \in DOMAIN m.impls[t].fns |->
            [name |-> m.impls[t].fns[j].name,
             seeds |-> { m.impls[t].fns[j].name }
                       \cup m.impls[t].fns[j].applications
                       \cup m.applications]]])

\* parse_context.rs:625-630, 652-658, 681-687: the entry points of one
\* module in the order of the loops, each with its seed set
ModEntries(m) ==
    [j \in DOMAIN m.fns |->
        [name |-> m.fns[j].name,
         seeds |-> { m.fns[j].name } \cup m.fns[j].applications
                   \cup m.applications]]
    \o Flatten([t \in DOMAIN m.traits |->
        [j \in DOMAIN m.traits[t].fns |->
            [name |-> m.traits[t].fns[j].name,
             seeds |-> { m.traits[t].fns[j].name }
                       \cup m.traits[t].fns[j].applications
                       \cup m.traits[t].applications \cup m.applications]]])
    \o Flatten([t \in DOMAIN m.impls |->
        [j \in DOMAIN m.impls[t].fns |->
            [name |-> m.impls[t].fns[j].name,
             seeds |-> { m.impls[t].fns[j].name }
                       \cup m.impls[t].fns[j].applications
                       \cup m.impls[t].applications \cup m.applications]]])

EntryPoints(mods) == Flatten([i \in DOMAIN mods |-> ModEntries(mods[i])])

Entries == EntryPoints(mod_contexts)

Current == Entries[entry]

\* utils::encoded_name: an encoding of the qualified name that keeps
\* different names apart
EncodedName(name) == "enc(" \o name \o ")"

\* format!("{}/{}.rs", OUT_FILE_PATH, encoded_name), inside the output directory
OutputPath(name) == EncodedName(name) \o ".rs"

NameMapPath == "name_map.json"

\* BTreeMap::insert and the replacement of a file's content
Put(map, key, value) == (key :> value) @@ map

Panic(what) ==
    /\ pc' = "panicked"
    /\ failed' = failed \cup { what }

Init ==
    /\ mod_contexts \in Programs
    /\ pc = "next"
    /\ entry = 0
    /\ direct = {}
    /\ indirect = {}
    /\ left = {}
    /\ todo = {}
    /\ syn_files = << >>
    /\ after_direct = << >>
    /\ text = << >>
    /\ name_map = << >>
    /\ files = ("context.txt" :> << "dump" >>)
    /\ written = {}
    /\ map_writes = 0
    /\ failed = {}
    /\ building = None
    /\ added = << >>
    /\ dump_writes = 1
    /\ removed = FALSE
    /\ mod_stack = << >>
    /\ entered = << >>

\* an entry point that starts from the sets and buckets of the one before
StartEntryKeepsState ==
    /\ pc = "next"
    /\ entry < Len(Entries)
    /\ entry' = entry + 1
    /\ direct' = Entries[entry + 1].seeds
    /\ indirect' = indirect
    /\ left' = Entries[entry + 1].seeds
    /\ todo' = {}
    /\ syn_files' = syn_files
    /\ after_direct' = << >>
    /\ text' = << >>
    /\ pc' = "closure"
    /\ UNCHANGED <<building, added, dump_writes, removed, mod_stack, entered>>
    /\ UNCHANGED <<mod_contexts, name_map, files, written, map_writes, failed>>

\* parse_context.rs:626-631 (652-659, 681-688) and line 41: the next entry
\* point of the loops, its seed set, the empty indirect set, the worklist
StartEntry ==
    /\ pc = "next"
    /\ entry < Len(Entries)
    /\ entry' = entry + 1
    /\ direct' = Entries[entry + 1].seeds
    /\ indirect' = {}
    /\ left' = Entries[entry + 1].seeds
    /\ todo' = {}
    /\ syn_files' = << >>
    /\ after_direct' = << >>
    /\ text' = << >>
    /\ pc' = "closure"
    /\ UNCHANGED <<building, added, dump_writes, removed, mod_stack, entered>>
    /\ UNCHANGED <<mod_contexts, name_map, files, written, map_writes, failed>>

\* parse_context.rs:42-89: one iteration of the worklist loop; when the
\* worklist is empty the direct pass starts (lines 637-638)
ClosureStep ==
    /\ pc = "closure"
    /\ left # {}
    /\ LET next == ClosurePop(mod_contexts, left, indirect)
       IN  /\ left' = next.left
           /\ indirect' = next.indirect
           /\ IF next.left = {}
              THEN pc' = "direct" /\ todo' = direct
              ELSE pc' = pc /\ todo' = todo
    /\ UNCHANGED <<building, added, dump_writes, removed, mod_stack, entered>>
    /\ UNCHANGED <<mod_contexts, entry, direct, syn_files, after_direct, text,
                   name_map, files, written, map_writes, failed>>

\* parse_context.rs:412-497: one iteration of the direct pass; after the
\* last one the indirect pass starts (line 639)
DirectStep ==
    /\ pc = "direct"
    /\ todo # {}
    /\ LET application == First(todo)
           next == DirectStepOf(mod_contexts, syn_files, application)
       IN  /\ syn_files' = next
           /\ IF todo = { application }
              THEN /\ pc' = "indirect"
                   /\ todo' = indirect
                   /\ after_direct' = next
              ELSE /\ pc' = pc
                   /\ todo' = todo \ { application }
                   /\ after_direct' = after_direct
    /\ UNCHANGED <<building, added, dump_writes, removed, mod_stack, entered>>
    /\ UNCHANGED <<mod_contexts, entry, direct, indirect, left, text,
                   name_map, files, written, map_writes, failed>>

\* parse_context.rs:505-620: one iteration of the indirect pass
IndirectStep ==
    /\ pc = "indirect"
    /\ todo # {}
    /\ LET application == First(todo)
       IN  /\ syn_files' = IndirectStepOf(mod_contexts, syn_files, application)
           /\ todo' = todo \ { application }
           /\ pc' = IF todo = { application } THEN "emit" ELSE pc
    /\ UNCHANGED <<building, added, dump_writes, removed, mod_stack, entered>>
    /\ UNCHANGED <<mod_contexts, entry, direct, indirect, left, after_direct,
                   text, name_map, files, written, map_writes, failed>>

\* parse_context.rs:641-648: render, record the name, create the directory
CreateDir ==
    /\ pc = "emit"
    /\ text' = to_string(syn_files)
    /\ name_map' = Put(name_map, Current.name, EncodedName(Current.name))
    /\ \/ pc' = "create" /\ failed' = failed
       \/ Panic(Current.name)
    /\ UNCHANGED <<building, added, dump_writes, removed, mod_stack, entered>>
    /\ UNCHANGED <<mod_contexts, entry, direct, indirect, left, todo, syn_files,
                   after_direct, files, written, map_writes>>

\* parse_context.rs:649: File::create(..).unwrap()
CreateFile ==
    /\ pc = "create"
    /\ \/ /\ files' = Put(files, OutputPath(Current.name), << >>)
          /\ pc' = "write"
          /\ failed' = failed
       \/ /\ Panic(Current.name)
          /\ files' = files
    /\ UNCHANGED <<building, added, dump_writes, removed, mod_stack, entered>>
    /\ UNCHANGED <<mod_contexts, entry, direct, indirect, left, todo, syn_files,
                   after_direct, text, name_map, written, map_writes>>

\* parse_context.rs:650: file.write_all(..).unwrap(), then the next entry point
WriteFile ==
    /\ pc = "write"
    /\ \/ /\ files' = Put(files, OutputPath(Current.name), text)
          /\ written' = written \cup { Current.name }
          /\ pc' = "next"
          /\ failed' = failed
       \/ /\ Panic(Current.name)
          /\ UNCHANGED <<files, written>>
    /\ UNCHANGED <<building, added, dump_writes, removed, mod_stack, entered>>
    /\ UNCHANGED <<mod_contexts, entry, direct, indirect, left, todo, syn_files,
                   after_direct, text, name_map, map_writes>>

\* parse_context.rs:715-718: after the loops, File::create(name_map_path).unwrap()
CreateMapFile ==
    /\ pc = "next"
    /\ entry = Len(Entries)
    /\ \/ /\ files' = Put(files, NameMapPath, << >>)
          /\ pc' = "map"
          /\ failed' = failed
       \/ /\ Panic(NameMapPath)
          /\ files' = files
    /\ UNCHANGED <<building, added, dump_writes, removed, mod_stack, entered>>
    /\ UNCHANGED <<mod_contexts, entry, direct, indirect, left, todo, syn_files,
                   after_direct, text, name_map, written, map_writes>>

\* parse_context.rs:719: serde_json::to_writer_pretty(file, &name_map).unwrap()
WriteMap ==
    /\ pc = "map"
    /\ \/ /\ files' = Put(files, NameMapPath, name_map)
          /\ map_writes' = map_writes + 1
          /\ pc' = "done"
          /\ failed' = failed
       \/ /\ Panic(NameMapPath)
          /\ UNCHANGED <<files, map_writes>>
    /\ UNCHANGED <<building, added, dump_writes, removed, mod_stack, entered>>
    /\ UNCHANGED <<mod_contexts, entry, direct, indirect, left, todo, syn_files,
                   after_direct, text, name_map, written>>

Next ==
    \/ StartEntry
    \/ ClosureStep
    \/ DirectStep
    \/ IndirectStep
    \/ CreateDir
    \/ CreateFile
    \/ WriteFile
    \/ CreateMapFile
    \/ WriteMap

Spec == Init /\ [][Next]_vars

\* parse_context.rs:42: the worklist loop is sequential code: while the
\* pending set is not empty its next iteration is taken
FairSpec == Spec /\ WF_vars(ClosureStep)

----------------------------------------------------------------------------
(* The whole run: RfocxtCallbacks::run_analysis (callbacks.rs:25-44)       *)
(* removes the output directory of a previous run, walks the crate, writes *)
(* the dump of the Module list and calls parse_context.                    *)

DumpPath == "context.txt"

\* what a previous run left in the output directory
StaleDir ==
    (DumpPath :> << "old" >>) @@ (OutputPath("c::f") :> << "old" >>)
    @@ (NameMapPath :> << "old" >>)

\* the Module lists the walk hands over
RunPrograms == { Program({}, v[1], v[2]) : v \in Variants }

RunInit ==
    /\ mod_contexts \in RunPrograms
    /\ pc = "start"
    /\ entry = 0
    /\ direct = {}
    /\ indirect = {}
    /\ left = {}
    /\ todo = {}
    /\ syn_files = << >>
    /\ after_direct = << >>
    /\ text = << >>
    /\ name_map = << >>
    /\ files \in { << >>, StaleDir }
    /\ written = {}
    /\ map_writes = 0
    /\ failed = {}
    /\ building = None
    /\ added = << >>
    /\ dump_writes = 0
    /\ removed = FALSE
    /\ mod_stack = << >>
    /\ entered = << >>

\* what no step before parse_context changes
RunFrame ==
    UNCHANGED <<mod_contexts, entry, direct, indirect, left, todo, syn_files,
                after_direct, text, name_map, written, map_writes, building,
                added, mod_stack, entered>>

\* a removal that leaves the directory as it is
RemoveOutDirSkips ==
    /\ pc = "start"
    /\ pc' = "dumpdir"
    /\ UNCHANGED <<files, removed, failed, dump_writes>>
    /\ RunFrame

\* callbacks.rs:26-29: if out_dir.exists() { fs::remove_dir_all(..).unwrap() }
RemoveOutDir ==
    /\ pc = "start"
    /\ IF files # << >>
       THEN \/ /\ files' = << >>
               /\ removed' = TRUE
               /\ pc' = "dumpdir"
               /\ failed' = failed
            \/ /\ Panic("out_dir")
               /\ UNCHANGED <<files, removed>>
       ELSE /\ pc' = "dumpdir"
            /\ UNCHANGED <<files, removed, failed>>
    /\ dump_writes' = dump_writes
    /\ RunFrame

\* callbacks.rs:37-38: fs::create_dir_all(..).unwrap()
CreateDumpDir ==
    /\ pc = "dumpdir"
    /\ \/ pc' = "dumpfile" /\ failed' = failed
       \/ Panic(DumpPath)
    /\ UNCHANGED <<files, removed, dump_writes>>
    /\ RunFrame

\* callbacks.rs:39: File::create(&output_path).unwrap()
CreateDump ==
    /\ pc = "dumpfile"
    /\ \/ /\ files' = Put(files, DumpPath, << >>)
          /\ pc' = "dump"
          /\ failed' = failed
       \/ /\ Panic(DumpPath)
          /\ files' = files
    /\ UNCHANGED <<removed, dump_writes>>
    /\ RunFrame

\* callbacks.rs:40-43: file.write_all(..).unwrap(), then parse_context()
WriteDump ==
    /\ pc = "dump"
    /\ \/ /\ files' = Put(files, DumpPath, << "dump" >>)
          /\ dump_writes' = dump_writes + 1
          /\ pc' = "next"
          /\ failed' = failed
       \/ /\ Panic(DumpPath)
          /\ UNCHANGED <<files, dump_writes>>
    /\ removed' = removed
    /\ RunFrame

RunNext ==
    \/ RemoveOutDir
    \/ CreateDumpDir
    \/ CreateDump
    \/ WriteDump
    \/ Next

RunSpec == RunInit /\ [][RunNext]_vars

----------------------------------------------------------------------------
(* The front end's calls on the module it is filling (hir_visitor.rs):     *)
(* ModContext::add_fn, add_struct, add_enum, add_derive, and               *)
(* derive_to_codes when the module is closed.                              *)

\* at most this many add_* calls are made on the module
MaxAdds == 4

\* BTreeSet::insert: an element equal to one of the set (named collections
\* compare by name) is not inserted and the set is not changed
BTreeInsert(items, item) ==
    IF \E i \in DOMAIN items : items[i].name = item.name
    THEN items
    ELSE SelectSeq(items, LAMBDA x : Rank(x.name) < Rank(item.name))
         \o << item >>
         \o SelectSeq(items, LAMBDA x : Rank(x.name) > Rank(item.name))

\* BTreeSet::replace: the equal element is replaced, or the element inserted
BTreeReplace(items, item) ==
    IF \E i \in DOMAIN items : items[i].name = item.name
    THEN [i \in DOMAIN items |->
            IF items[i].name = item.name THEN item ELSE items[i]]
    ELSE BTreeInsert(items, item)

\* the declarations the front end reports
FnInputs ==
    { [name |-> "c::f", codes |-> FnCodes("fn f", None, << "v1" >>, TRUE),
       applications |-> {}],
      [name |-> "c::f", codes |-> FnCodes("fn f", None, << "v2" >>, TRUE),
       applications |-> { "c::g" }],
      [name |-> "c::g", codes |-> FnCodes("fn g", None, << "v1" >>, TRUE),
       applications |-> {}] }

StructInputs ==
    { [name |-> "c::Point", codes |-> Codes("struct Point;", TRUE),
       derives |-> {}, applcaitions |-> {}],
      [name |-> "c::Point", codes |-> Codes("struct Point { e: E }", TRUE),
       derives |-> {}, applcaitions |-> { "c::E" }] }

EnumInputs ==
    { [name |-> "c::E", codes |-> Codes("enum E {}", TRUE),
       derives |-> {}, applications |-> {}] }

\* the capability markers, in the order of BTreeSet<String>
MarkerOrder == << "Clone", "Debug" >>

DeriveInputs ==
    { [name |-> n, derive |-> d] : n \in { "c::Point", "c::E" }, d \in Range(MarkerOrder) }

\* mod_context.rs:379-405 add_derive if it kept only the latest marker
AddDeriveOfOverwrites(m, name, derive) ==
    IF \E i \in DOMAIN m.structs : m.structs[i].name = name
    THEN LET struct_item == m.structs[FirstNamed(m.structs, name)]
         IN  [m EXCEPT !.structs =
                BTreeReplace(@, [struct_item EXCEPT !.derives = { derive }])]
    ELSE IF \E i \in DOMAIN m.enums : m.enums[i].name = name
    THEN LET enum_item == m.enums[FirstNamed(m.enums, name)]
         IN  [m EXCEPT !.enums =
                BTreeReplace(@, [enum_item EXCEPT !.derives = { derive }])]
    ELSE m

\* mod_context.rs:379-405 add_derive: the first record, else enum, else union
\* of that name gets the marker added to its set
AddDeriveOf(m, name, derive) ==
    IF \E i \in DOMAIN m.structs : m.structs[i].name = name
    THEN LET struct_item == m.structs[FirstNamed(m.structs, name)]
         IN  [m EXCEPT !.structs =
                BTreeReplace(@, [struct_item EXCEPT !.derives = @ \cup { derive }])]
    ELSE IF \E i \in DOMAIN m.enums : m.enums[i].name = name
    THEN LET enum_item == m.enums[FirstNamed(m.enums, name)]
         IN  [m EXCEPT !.enums =
                BTreeReplace(@, [enum_item EXCEPT !.derives = @ \cup { derive }])]
    ELSE IF \E i \in DOMAIN m.unions : m.unions[i].name = name
    THEN LET union_item == m.unions[FirstNamed(m.unions, name)]
         IN  [m EXCEPT !.unions =
                BTreeReplace(@, [union_item EXCEPT !.derives = @ \cup { derive }])]
    ELSE m

RECURSIVE JoinSeq(_)
\* Vec<String>::join(", ")
JoinSeq(ss) ==
    IF ss = << >> THEN ""
    ELSE IF Len(ss) = 1 THEN ss[1]
    ELSE ss[1] \o ", " \o JoinSeq(Tail(ss))

\* mod_context.rs:413-423: the annotation line is put before the text
WithDerives(item) ==
    IF item.derives = {} THEN item
    ELSE LET derives == JoinSeq(SelectSeq(MarkerOrder, LAMBDA d : d \in item.derives))
         IN  [item EXCEPT !.codes.text = "#[derive(" \o derives \o ")]" \o "\n" \o @]

\* mod_context.rs:407-467 derive_to_codes
DeriveToCodes(m) ==
    [m EXCEPT !.structs = [i \in DOMAIN @ |-> WithDerives(@[i])],
              !.enums = [i \in DOMAIN @ |-> WithDerives(@[i])],
              !.unions = [i \in DOMAIN @ |-> WithDerives(@[i])]]

\* HirVisitor::new and ModContext::new: the walk has entered the module
BuildInit ==
    /\ mod_contexts = << >>
    /\ pc = "build"
    /\ entry = 0
    /\ direct = {}
    /\ indirect = {}
    /\ left = {}
    /\ todo = {}
    /\ syn_files = << >>
    /\ after_direct = << >>
    /\ text = << >>
    /\ name_map = << >>
    /\ files = << >>
    /\ written = {}
    /\ map_writes = 0
    /\ failed = {}
    /\ building = EmptyMod("c")
    /\ added = << >>
    /\ dump_writes = 0
    /\ removed = FALSE
    /\ mod_stack = << >>
    /\ entered = << >>

\* what no front-end call changes
BuildFrame ==
    UNCHANGED <<entry, direct, indirect, left, todo, syn_files, after_direct,
                text, name_map, files, written, map_writes, failed, dump_writes,
                removed, mod_stack, entered>>

\* hir_visitor.rs:329 and mod_context.rs:309-312 add_fn
AddFn ==
    /\ pc = "build"
    /\ Len(added) < MaxAdds
    /\ \E fn_item \in FnInputs :
          /\ building' = [building EXCEPT !.fns = BTreeInsert(@, fn_item)]
          /\ added' = Append(added, [op |-> "fn", item |-> fn_item])
    /\ UNCHANGED <<mod_contexts, pc>>
    /\ BuildFrame

\* hir_visitor.rs:464 and mod_context.rs:346-349 add_struct
AddStruct ==
    /\ pc = "build"
    /\ Len(added) < MaxAdds
    /\ \E struct_item \in StructInputs :
          /\ building' = [building EXCEPT !.structs = BTreeInsert(@, struct_item)]
          /\ added' = Append(added, [op |-> "struct", item |-> struct_item])
    /\ UNCHANGED <<mod_contexts, pc>>
    /\ BuildFrame

\* hir_visitor.rs:435 and mod_context.rs:341-344 add_enum
AddEnum ==
    /\ pc = "build"
    /\ Len(added) < MaxAdds
    /\ \E enum_item \in EnumInputs :
          /\ building' = [building EXCEPT !.enums = BTreeInsert(@, enum_item)]
          /\ added' = Append(added, [op |-> "enum", item |-> enum_item])
    /\ UNCHANGED <<mod_contexts, pc>>
    /\ BuildFrame

\* hir_visitor.rs:659-663 and mod_context.rs:379-405 add_derive
AddDerive ==
    /\ pc = "build"
    /\ Len(added) < MaxAdds
    /\ \E d \in DeriveInputs :
          /\ building' = AddDeriveOf(building, d.name, d.derive)
          /\ added' = Append(added, [op |-> "derive", item |-> d])
    /\ UNCHANGED <<mod_contexts, pc>>
    /\ BuildFrame

\* hir_visitor.rs:105-107: the module is closed and handed over
CloseMod ==
    /\ pc = "build"
    /\ building' = DeriveToCodes(building)
    /\ mod_contexts' = Append(mod_contexts, building')
    /\ pc' = "closed"
    /\ added' = added
    /\ BuildFrame

BuildNext ==
    \/ AddFn
    \/ AddStruct
    \/ AddEnum
    \/ AddDerive
    \/ CloseMod

BuildSpec == BuildInit /\ [][BuildNext]_vars

----------------------------------------------------------------------------
(* Programs with more members: the inherent implementation block has a     *)
(* third method, reset(), that declares no return type, and module c::a    *)
(* holds an implementation of the interface c::Tr for c::Point with an     *)
(* associated type and the method tm().                                    *)

\* the method as the front end records it (hir_visitor.rs:710-714)
ResetItem(impl_name) ==
    [name |-> impl_name \o "::reset",
     codes |-> FnCodes("fn reset", None, << "stmt_reset" >>, TRUE),
     applications |-> {}]

\* the Module list with reset() in every implementation block, behind
\* helper and new, and referenced by the free functions named in callers
WithReset(mods, callers) ==
    [i \in DOMAIN mods |->
        [mods[i] EXCEPT
            !.fns = [j \in DOMAIN @ |->
                        IF @[j].name \in callers
                        THEN [@[j] EXCEPT !.applications =
                                @ \cup { ImplName(layout) \o "::reset" :
                                           layout \in { l \in { "same", "child" } :
                                             \E k \in DOMAIN mods :
                                               \E t \in DOMAIN mods[k].impls :
                                                 mods[k].impls[t].name = ImplName(l) } }]
                        ELSE @[j]],
            !.impls = [t \in DOMAIN @ |->
                        [@[t] EXCEPT !.fns = Append(@, ResetItem(mods[i].impls[t].name))]]]]

\* rustc numbers the implementation blocks of a module
TraitImplName(layout) ==
    IF layout = "child" THEN "c::a::{impl#1}" ELSE "c::a::{impl#0}"

\* the block "impl Tr for Point { type Out = i32; fn tm() { .. } }" as the
\* compiler hands it to visit_item: a_impl.items in source order
TraitImplBlock(layout) ==
    [name |-> TraitImplName(layout),
     struct_name |-> "c::Point",
     trait_name |-> Some("c::Tr"),
     codes |-> Codes("impl Tr for Point", TRUE),
     items |-> << [kind |-> "Type", codes |-> Codes("type Out = i32;", TRUE)],
                  [kind |-> "Fn",
                   name |-> TraitImplName(layout) \o "::tm",
                   codes |-> FnCodes("fn tm", None, << "stmt_impl_tm" >>, TRUE),
                   applications |-> {}] >>,
     refs |-> {}]

RECURSIVE InsertAll(_, _)
\* BTreeSet::insert of each element in turn
InsertAll(set, items) ==
    IF items = << >> THEN set
    ELSE InsertAll(BTreeInsert(set, Head(items)), Tail(items))

\* hir_visitor.rs:658-731: the ImplItem recorded for a block.  Constants
\* and methods are inserted into their sets; for an associated type only
\* the names in it are collected (lines 716-718) and types stays empty
VisitImpl(a_impl) ==
    [name |-> a_impl.name,
     struct_name |-> a_impl.struct_name,
     trait_name |-> a_impl.trait_name,
     codes |-> a_impl.codes,
     types |-> << >>,
     consts |-> Flatten([k \in DOMAIN a_impl.items |->
                    When(a_impl.items[k].kind = "Const", a_impl.items[k].codes)]),
     fns |-> InsertAll(<< >>,
                Flatten([k \in DOMAIN a_impl.items |->
                    IF a_impl.items[k].kind = "Fn"
                    THEN << [name |-> a_impl.items[k].name,
                             codes |-> a_impl.items[k].codes,
                             applications |-> a_impl.items[k].applications] >>
                    ELSE << >>])),
     applications |-> { a_impl.struct_name } \cup Range(a_impl.trait_name)
                      \cup a_impl.refs]

\* the Module list after the front end also met the block in module c::a
WithTraitImpl(mods, layout) ==
    [i \in DOMAIN mods |->
        IF mods[i].name = "c::a"
        THEN [mods[i] EXCEPT !.impls = Append(@, VisitImpl(TraitImplBlock(layout)))]
        ELSE mods[i]]

\* the optional reference edges of these programs
MemberEdgeSets ==
    { {}, { <<"f", "Point">> }, { <<"g", "f">>, <<"f", "tm">> },
      { <<"g", "f">>, <<"f", "Tr">> }, { <<"f", "new">>, <<"f", "helper">> },
      { <<"f", "tm">>, <<"tm", "h">> }, { <<"g", "f">>, <<"f", "helper">> },
      { <<"g", "f">> } }

MemberPrograms ==
    { WithTraitImpl(WithReset(Program(edges, layout, {}), callers), layout) :
        edges \in MemberEdgeSets, layout \in { "same", "child" },
        callers \in { {}, { "c::f" } } }

MemberInit ==
    /\ mod_contexts \in MemberPrograms
    /\ pc = "next"
    /\ entry = 0
    /\ direct = {}
    /\ indirect = {}
    /\ left = {}
    /\ todo = {}
    /\ syn_files = << >>
    /\ after_direct = << >>
    /\ text = << >>
    /\ name_map = << >>
    /\ files = ("context.txt" :> << "dump" >>)
    /\ written = {}
    /\ map_writes = 0
    /\ failed = {}
    /\ building = None
    /\ added = << >>
    /\ dump_writes = 1
    /\ removed = FALSE
    /\ mod_stack = << >>
    /\ entered = << >>

MemberSpec == MemberInit /\ [][Next]_vars

----------------------------------------------------------------------------
(* The walk over nested modules: HirVisitor::visit_mod (hir_visitor.rs:     *)
(* 89-109) pushes a ModContext, visits the items of the module (a nested   *)
(* module is an item: lines 341-344), pops the ModContext, merges its      *)
(* annotations and pushes it onto complete_mod_contexts.                   *)

\* the modules of the walked crates: c { a { b } d }
Children(name) ==
    CASE name = "c"    -> { "c::a", "c::d" }
      [] name = "c::a" -> { "c::a::b" }
      [] OTHER         -> {}

\* at most this many declarations and markers are met in one walk
MaxVisits == 3

\* Vec::last
Last(s) == s[Len(s)]

\* the names of the modules that were closed, in the order of closing
ClosedNames == [i \in DOMAIN mod_contexts |-> mod_contexts[i].name]

\* the modules that were entered and not closed, in the order of entering
OpenNames == SelectSeq(entered, LAMBDA n : n \notin Range(ClosedNames))

\* HirVisitor::new: nothing is open, nothing is complete
WalkInit ==
    /\ mod_contexts = << >>
    /\ pc = "walk"
    /\ entry = 0
    /\ direct = {}
    /\ indirect = {}
    /\ left = {}
    /\ todo = {}
    /\ syn_files = << >>
    /\ after_direct = << >>
    /\ text = << >>
    /\ name_map = << >>
    /\ files = << >>
    /\ written = {}
    /\ map_writes = 0
    /\ failed = {}
    /\ building = None
    /\ added = << >>
    /\ dump_writes = 0
    /\ removed = FALSE
    /\ mod_stack = << >>
    /\ entered = << >>

\* what no step of the walk changes
WalkFrame ==
    UNCHANGED <<entry, direct, indirect, left, todo, syn_files, after_direct,
                text, name_map, files, written, map_writes, failed, building,
                dump_writes, removed>>

\* hir_visitor.rs:95-100: the crate root first (walk_toplevel_module,
\* callbacks.rs:33), then a nested module met among the items of the
\* innermost open module
EnterMod ==
    /\ pc = "walk"
    /\ \E module_name \in
            (IF mod_stack = << >>
             THEN (IF entered = << >> THEN { "c" } ELSE {})
             ELSE Children(Last(mod_stack).name) \ Range(entered)) :
          /\ mod_stack' = Append(mod_stack, EmptyMod(module_name))
          /\ entered' = Append(entered, module_name)
    /\ UNCHANGED <<mod_contexts, pc, added>>
    /\ WalkFrame

\* self.mod_contexts.last_mut().unwrap() changed by one add_* call
OnLast(stack, change(_)) ==
    [stack EXCEPT ![Len(stack)] = change(@)]

\* hir_visitor.rs:286-329: a free function of the module that is visited
VisitFn ==
    /\ pc = "walk"
    /\ mod_stack # << >>
    /\ Len(added) < MaxVisits
    /\ LET fn_item == [name |-> Last(OpenNames) \o "::f",
                       codes |-> FnCodes("fn f", None, << "v1" >>, TRUE),
                       applications |-> {}]
       IN  /\ mod_stack' = OnLast(mod_stack,
                              LAMBDA m : [m EXCEPT !.fns = BTreeInsert(@, fn_item)])
           /\ added' = Append(added, [op |-> "fn", item |-> fn_item,
                                      mod |-> Last(OpenNames)])
    /\ UNCHANGED <<mod_contexts, pc, entered>>
    /\ WalkFrame

\* hir_visitor.rs:437-464: a record of the module that is visited
VisitStruct ==
    /\ pc = "walk"
    /\ mod_stack # << >>
    /\ Len(added) < MaxVisits
    /\ LET struct_item == [name |-> Last(OpenNames) \o "::P",
                           codes |-> Codes("struct P;", TRUE),
                           derives |-> {}, applcaitions |-> {}]
       IN  /\ mod_stack' = OnLast(mod_stack,
                              LAMBDA m : [m EXCEPT !.structs =
                                            BTreeInsert(@, struct_item)])
           /\ added' = Append(added, [op |-> "struct", item |-> struct_item,
                                      mod |-> Last(OpenNames)])
    /\ UNCHANGED <<mod_contexts, pc, entered>>
    /\ WalkFrame

\* hir_visitor.rs:659-665: a capability marker for the record of the module
VisitDerive ==
    /\ pc = "walk"
    /\ mod_stack # << >>
    /\ Len(added) < MaxVisits
    /\ \E derive \in Range(MarkerOrder) :
          LET struct_name == Last(OpenNames) \o "::P"
          IN  /\ mod_stack' = OnLast(mod_stack,
                                 LAMBDA m : AddDeriveOf(m, struct_name, derive))
              /\ added' = Append(added,
                                 [op |-> "derive",
                                  item |-> [name |-> struct_name, derive |-> derive],
                                  mod |-> Last(OpenNames)])
    /\ UNCHANGED <<mod_contexts, pc, entered>>
    /\ WalkFrame

\* a close that takes the outermost open module
LeaveModOutermost ==
    /\ pc = "walk"
    /\ mod_stack # << >>
    /\ mod_contexts' = Append(mod_contexts, DeriveToCodes(Head(mod_stack)))
    /\ mod_stack' = Tail(mod_stack)
    /\ pc' = IF Len(mod_stack) = 1 THEN "walked" ELSE pc
    /\ UNCHANGED <<entered, added>>
    /\ WalkFrame

\* hir_visitor.rs:105-107: the items of the innermost module are done:
\* pop, derive_to_codes, push onto complete_mod_contexts
LeaveMod ==
    /\ pc = "walk"
    /\ mod_stack # << >>
    /\ mod_contexts' = Append(mod_contexts, DeriveToCodes(Last(mod_stack)))
    /\ mod_stack' = SubSeq(mod_stack, 1, Len(mod_stack) - 1)
    /\ pc' = IF Len(mod_stack) = 1 THEN "walked" ELSE pc
    /\ UNCHANGED <<entered, added>>
    /\ WalkFrame

WalkNext ==
    \/ EnterMod
    \/ VisitFn
    \/ VisitStruct
    \/ VisitDerive
    \/ LeaveMod

WalkSpec == WalkInit /\ [][WalkNext]_vars

----------------------------------------------------------------------------
(* Notions the properties are stated with.                                 *)

Mods == { mod_contexts[i] : i \in DOMAIN mod_contexts }

\* the closure of the current entry point is complete
ClosureDone == pc \in { "direct", "indirect", "emit", "create", "write" }

\* both assembly passes of the current entry point are complete
Assembled == pc \in { "emit", "create", "write" }

\* text holds the rendered output of the current entry point
Rendered == pc \in { "create", "write" }

\* the references of every declaration a name resolves to, interface methods
\* included
DeclRefs(mods, name) ==
    ClosureRefs(mods, name)
    \cup UNION { UNION { NamedRefs(mods[i].traits[t].fns, name) :
                           t \in DOMAIN mods[i].traits }
                 : i \in DOMAIN mods }

RECURSIVE Reachable(_, _)
\* the names reachable from S over references edges
Reachable(mods, S) ==
    LET next == S \cup UNION { DeclRefs(mods, n) : n \in S }
    IN  IF next = S THEN S ELSE Reachable(mods, next)

\* the declarations of one kind and name in the buckets of one module
Occurrences(files_, found) ==
    Flatten([i \in DOMAIN files_ |->
        IF files_[i].name = found.mod_name
        THEN LET items == KindItems(files_[i], found.app)
             IN  Flatten([j \in DOMAIN items |->
                    When(items[j].name = found.app.item.name, items[j])])
        ELSE << >>])

\* a function or method as rendered with the body of its source text
FullFn(codes) ==
    [kind |-> "fn",
     item |-> [sig |-> [ident |-> codes.sig, output |-> codes.output],
               block |-> codes.stmts]]

\* a function or method as rendered with its signature and an empty body
StubFn(codes) ==
    [kind |-> "fn",
     item |-> [sig |-> [ident |-> codes.sig, output |-> codes.output],
               block |-> << >>]]

\* the members of the rendered implementation blocks with this header
RenderedImplMembers(header) ==
    UNION { Range(text[i].item.items) :
              i \in { j \in DOMAIN text :
                        text[j].kind = "impl" /\ text[j].item.text = header } }

\* the declared return type names the target type or Self
MentionsTarget(codes, struct_name) ==
    /\ IsSome(codes.output)
    /\ ("Self" \in codes.output[1] \/ LastSegment(struct_name) \in codes.output[1])

\* every free function, interface method and implementation-block method
EntryNames ==
    UNION { { m.fns[j].name : j \in DOMAIN m.fns }
            \cup UNION { { m.traits[t].fns[j].name : j \in DOMAIN m.traits[t].fns }
                         : t \in DOMAIN m.traits }
            \cup UNION { { m.impls[t].fns[j].name : j \in DOMAIN m.impls[t].fns }
                         : t \in DOMAIN m.impls }
          : m \in Mods }

----------------------------------------------------------------------------
(* C1  Closure soundness: once the closure of an entry point is complete,  *)
(* indirectSet contains every name reachable from the seed set over the    *)
(* references of whatever declaration each name resolves to, interface     *)
(* methods included.                                                       *)
C1_ClosureSound ==
    ClosureDone => Reachable(mod_contexts, direct) \subseteq indirect

(* C2  Direct-over-indirect precedence: during and after the indirect      *)
(* pass, every name of directSet and indirectSet that resolves to a        *)
(* declaration has exactly one declaration of its kind and name in the     *)
(* bucket of its module, and it is the one the direct pass left there.     *)
C2_DirectPrecedence ==
    pc \in { "indirect", "emit", "create", "write" } =>
        \A n \in direct \cap indirect :
            LET found == GetDirectItem(mod_contexts, n)
            IN  IsSome(found) =>
                    /\ Len(Occurrences(syn_files, found[1])) = 1
                    /\ Occurrences(syn_files, found[1])
                         = Occurrences(after_direct, found[1])

\* the passes are complete for a name of both sets whose reduced version
\* differs from the version of the direct pass
C2_Witness ==
    /\ Assembled
    /\ \E n \in direct \cap indirect :
          /\ IsSome(GetDirectItem(mod_contexts, n))
          /\ IsSome(GetIndirectItem(mod_contexts, n))
          /\ GetIndirectItem(mod_contexts, n) # GetDirectItem(mod_contexts, n)
          /\ Len(Occurrences(syn_files, GetDirectItem(mod_contexts, n)[1])) = 1

(* C3  Body-elision law: in the rendered output of an entry point, a free  *)
(* function whose name is in indirectSet but not in directSet never        *)
(* appears with its body, and, when its source text parses, appears with   *)
(* the signature of its source text and an empty body.                     *)
C3_BodyElision ==
    Rendered =>
        \A m \in Mods : \A j \in DOMAIN m.fns :
            LET fn_item == m.fns[j]
            IN  fn_item.name \in indirect \ direct =>
                    /\ FullFn(fn_item.codes) \notin Range(text)
                    /\ fn_item.codes.valid => StubFn(fn_item.codes) \in Range(text)

\* the output that is being written holds the stub of an indirectly reached
\* free function
C3_Witness ==
    /\ pc = "write"
    /\ \E m \in Mods : \E j \in DOMAIN m.fns :
          /\ m.fns[j].name \in indirect \ direct
          /\ m.fns[j].codes.stmts # << >>
          /\ StubFn(m.fns[j].codes) \in Range(text)

(* C4  Constructor-retention law: in the rendered output of an entry       *)
(* point, an implementation-block method that is in indirectSet but not in *)
(* directSet and whose declared return type mentions the implementing type *)
(* or Self appears in its block with the body of its source text (given    *)
(* that the text of the block and of the method parses).                   *)
C4_ConstructorRetention ==
    Rendered =>
        \A m \in Mods : \A t \in DOMAIN m.impls : \A j \in DOMAIN m.impls[t].fns :
            LET impl_item == m.impls[t]
                impl_fn == impl_item.fns[j]
            IN  /\ impl_fn.name \in indirect \ direct
                /\ MentionsTarget(impl_fn.codes, impl_item.struct_name)
                /\ impl_item.codes.valid
                /\ impl_fn.codes.valid
                => FullFn(impl_fn.codes) \in RenderedImplMembers(impl_item.codes.text)

\* the output that is being written holds the body of a constructor that
\* only the indirect pass reached
C4_Witness ==
    /\ pc = "write"
    /\ \E m \in Mods : \E t \in DOMAIN m.impls : \E j \in DOMAIN m.impls[t].fns :
          /\ m.impls[t].fns[j].name \in indirect \ direct
          /\ MentionsTarget(m.impls[t].fns[j].codes, m.impls[t].struct_name)
          /\ m.impls[t].fns[j].codes.stmts # << >>
          /\ FullFn(m.impls[t].fns[j].codes)
                \in RenderedImplMembers(m.impls[t].codes.text)

\* the free function whose context is being extracted, if the entry point is one
CurrentFns ==
    UNION { { m.fns[j] : j \in { k \in DOMAIN m.fns : m.fns[k].name = Current.name } }
            : m \in Mods }

(* C5  Scenario C: when the entry point is a free function that references *)
(* a record type T and none of the methods of an implementation block for  *)
(* T, the rendered output holds that block, with every method whose return *)
(* type mentions T with its body and every method with another return type *)
(* as a stub.                                                              *)
C5_ScenarioC ==
    Rendered =>
        \A f \in CurrentFns : \A m \in Mods : \A t \in DOMAIN m.impls :
            LET impl_item == m.impls[t]
            IN  /\ impl_item.struct_name \in f.applications
                /\ \E r \in Mods : \E k \in DOMAIN r.structs :
                      r.structs[k].name = impl_item.struct_name
                /\ \A j \in DOMAIN impl_item.fns :
                      /\ impl_item.fns[j].name \notin f.applications
                      /\ impl_item.fns[j].codes.valid
                      /\ IsSome(impl_item.fns[j].codes.output)
                /\ impl_item.codes.valid
                => \A j \in DOMAIN impl_item.fns :
                      IF MentionsTarget(impl_item.fns[j].codes, impl_item.struct_name)
                      THEN FullFn(impl_item.fns[j].codes)
                              \in RenderedImplMembers(impl_item.codes.text)
                      ELSE StubFn(impl_item.fns[j].codes)
                              \in RenderedImplMembers(impl_item.codes.text)

(* C6  Scenarios A and B: when the entry point is a free function f of a   *)
(* module without module-level references, the rendered output holds every *)
(* free function f references with its body, and every free function       *)
(* reachable from f in two or more reference steps only as a stub (free    *)
(* functions whose text parses).                                           *)
C6_ScenariosAB ==
    Rendered =>
        \A f \in CurrentFns : \A m \in Mods :
            (\E j \in DOMAIN m.fns : m.fns[j].name = f.name) /\ m.applications = {}
            => \A r \in Mods : \A k \in DOMAIN r.fns :
                  LET g == r.fns[k]
                  IN  g.codes.valid =>
                        /\ g.name \in f.applications
                              => FullFn(g.codes) \in Range(text)
                        /\ g.name \in Reachable(mod_contexts, { f.name })
                                        \ ({ f.name } \cup f.applications)
                              => StubFn(g.codes) \in Range(text)

(* C8  Termination of the closure: under the sequential scheduling of the  *)
(* run, whenever the worklist loop of an entry point is running, it        *)
(* eventually ends with an empty pending set, cyclic reference graphs      *)
(* included.                                                               *)
C8_ClosureTerminates ==
    (pc = "closure") ~> (pc = "direct" /\ left = {})

\* the worklist loop has ended for a closure that holds a reference cycle
C8_Witness ==
    /\ pc = "direct"
    /\ left = {}
    /\ \E n \in indirect : \E o \in ClosureRefs(mod_contexts, n) :
          /\ o # n
          /\ o \in indirect
          /\ n \in ClosureRefs(mod_contexts, o)

(* C9  Name map: the map document is written at most once and only after   *)
(* the context file of every entry point has been written; after a run it  *)
(* has been written once and holds, for every free function, interface     *)
(* method and implementation-block method of every module, one pair from   *)
(* its qualified name to the encoded name of its output file.              *)
C9_NameMap ==
    /\ map_writes <= 1
    /\ NameMapPath \in DOMAIN files => written = EntryNames
    /\ pc = "done" =>
          /\ map_writes = 1
          /\ DOMAIN name_map = EntryNames
          /\ \A n \in EntryNames :
                /\ name_map[n] = EncodedName(n)
                /\ (name_map[n] \o ".rs") \in DOMAIN files
          /\ files[NameMapPath] = name_map

\* a run has ended with the map written, for a program with an interface
\* method and an implementation-block method among its entry points
C9_Witness ==
    /\ pc = "done"
    /\ map_writes = 1
    /\ files[NameMapPath] = name_map
    /\ \E m \in Mods : \E t \in DOMAIN m.traits : m.traits[t].fns # << >>
    /\ \E m \in Mods : \E t \in DOMAIN m.impls : m.impls[t].fns # << >>

(* C10  Output I/O failure isolation: a failure to create the output       *)
(* directory or to create or write the context file of an entry point does *)
(* not stop the run; the run goes on to the remaining entry points and the *)
(* name map.                                                               *)
C10_FailureIsolation ==
    failed \cap EntryNames # {} => pc # "panicked"

(* C11  No partial output: when the run has stopped on an I/O failure,     *)
(* every context file that exists in the output directory has been written *)
(* completely; the file of the entry point that was being emitted holds    *)
(* its rendered text.                                                      *)
C11_NoPartialOutput ==
    pc = "panicked" =>
        \A n \in EntryNames :
            OutputPath(n) \in DOMAIN files =>
                /\ n \in written
                /\ n = Current.name => files[OutputPath(n)] = text

\* the functions and implementation-block methods whose recorded text does
\* not re-parse and whose name is in directSet or indirectSet
UnparsableFns ==
    UNION { { m.fns[j].codes : j \in { k \in DOMAIN m.fns :
                  /\ m.fns[k].name \in direct \cup indirect
                  /\ ~ m.fns[k].codes.valid } }
            \cup UNION { { m.impls[t].fns[j].codes :
                             j \in { k \in DOMAIN m.impls[t].fns :
                                 /\ m.impls[t].fns[k].name \in direct \cup indirect
                                 /\ ~ m.impls[t].fns[k].codes.valid } }
                         : t \in DOMAIN m.impls }
          : m \in Mods }

\* every function rendered in text, at the top level or inside a block
RenderedFns ==
    { text[i] : i \in { j \in DOMAIN text : text[j].kind = "fn" } }
    \cup UNION { Range(text[i].item.items) :
                   i \in { j \in DOMAIN text : text[j].kind \in { "impl", "trait" } } }

(* C12  A parse failure is local: a function or method of directSet or     *)
(* indirectSet whose recorded text does not re-parse is rendered neither   *)
(* with its body nor as a stub; every name of the two sets whose lookup    *)
(* succeeds has its declaration in the assembled buckets exactly once; and *)
(* the run stops only on an I/O failure.                                   *)
C12_ParseFailureLocal ==
    /\ Assembled =>
          /\ \A n \in direct :
                LET found == GetDirectItem(mod_contexts, n)
                IN  IsSome(found) => Len(Occurrences(syn_files, found[1])) = 1
          /\ \A n \in indirect :
                LET found == GetIndirectItem(mod_contexts, n)
                IN  IsSome(found) => Len(Occurrences(syn_files, found[1])) = 1
    /\ Rendered =>
          \A codes \in UnparsableFns :
              /\ FullFn(codes) \notin RenderedFns
              /\ StubFn(codes) \notin RenderedFns
    /\ pc = "panicked" => failed # {}

\* the output that is being written was assembled from sets that name a
\* declaration which does not re-parse and another one which is rendered
C12_Witness ==
    /\ pc = "write"
    /\ UnparsableFns # {}
    /\ \E n \in indirect :
          LET found == GetIndirectItem(mod_contexts, n)
          IN  /\ n # Current.name
              /\ IsSome(found)
              /\ Len(Occurrences(syn_files, found[1])) = 1
    /\ RenderedFns # {}

\* no declaration of any module is matched by the name
Unresolvable(n) == AllMatches(mod_contexts, n, TRUE) = << >>

(* C13 as stated: once the closure of an entry point is complete, a name   *)
(* of the seed set that matches no declaration in any module is absent     *)
(* from indirectSet.                                                       *)
C13_UnresolvableAbsent ==
    ClosureDone => \A n \in direct : Unresolvable(n) => n \notin indirect

(* C13  Unresolvable reference, amended: the worklist step that visits a   *)
(* name matching no declaration records it in indirectSet and enqueues     *)
(* nothing; the assembly step of either pass that meets such a name leaves *)
(* the buckets unchanged; and the run stops only from an I/O step, never   *)
(* from the closure or the assembly.                                       *)
C13_UnresolvableInert ==
    [][ /\ (pc = "closure" /\ Unresolvable(First(left)))
            => /\ left' = left \ { First(left) }
               /\ First(left) \in indirect'
        /\ (pc \in { "direct", "indirect" } /\ Unresolvable(First(todo)))
            => syn_files' = syn_files
        /\ pc' = "panicked" => pc \in { "emit", "create", "write", "next", "map" }
      ]_vars

\* an output is being written for an entry point whose sets hold a name
\* that matches no declaration
C13_Witness ==
    /\ pc = "write"
    /\ \E n \in direct \cap indirect : Unresolvable(n)
    /\ text # << >>

\* the rendered form (kind and what identifies the declaration) of what a
\* lookup returned
RenderedKey(found) ==
    LET app == found.app
    IN  CASE app.kind = "Fn"     -> << "fn", app.item.item.sig >>
          [] app.kind = "Enum"   -> << "enum", app.item.item.text >>
          [] app.kind = "Struct" -> << "struct", app.item.item.text >>
          [] app.kind = "Union"  -> << "union", app.item.item.text >>
          [] app.kind = "Trait"  -> << "trait", app.item.item.text >>
          [] app.kind = "Impl"   -> << "impl", app.item.item.text >>

\* the same for a line of the rendered text
TextKey(line) ==
    IF line.kind = "fn" THEN << "fn", line.item.sig >>
    ELSE << line.kind, line.item.text >>

\* what the names of directSet and indirectSet resolve to
SelectedKeys ==
    { RenderedKey(GetDirectItem(mod_contexts, n)[1]) :
        n \in { x \in direct \cup indirect : IsSome(GetDirectItem(mod_contexts, x)) } }

(* C14  Only selected declarations: every declaration in the rendered      *)
(* output of an entry point is one that a name of directSet or indirectSet *)
(* resolves to; when the seed set holds only the entry point's own name    *)
(* the output holds one declaration.                                       *)
C14_OnlySelected ==
    Rendered =>
        /\ \A i \in DOMAIN text :
              text[i].kind # "comment" => TextKey(text[i]) \in SelectedKeys
        /\ direct = { Current.name } =>
              Cardinality({ i \in DOMAIN text : text[i].kind # "comment" }) <= 1

\* the named declarations of a collection stand in ascending name order
Ascending(items) ==
    \A i, j \in DOMAIN items : i < j => Rank(items[i].name) < Rank(items[j].name)

(* C15  Order within a kind: in the buckets an entry point is rendered     *)
(* from, the declarations of one bucket and one named kind stand in        *)
(* ascending qualified-name order.                                         *)
C15_NameOrderWithinKind ==
    Rendered =>
        \A b \in DOMAIN syn_files :
            /\ Ascending(syn_files[b].fns)
            /\ Ascending(syn_files[b].enums)
            /\ Ascending(syn_files[b].structs)
            /\ Ascending(syn_files[b].unions)
            /\ Ascending(syn_files[b].traits)
            /\ Ascending(syn_files[b].impls)

\* the place of a declaration kind in the canonical order
KindRank(kind) ==
    CASE kind = "use"         -> 1
      [] kind = "static"      -> 2
      [] kind = "const"       -> 3
      [] kind = "fn"          -> 4
      [] kind = "macro"       -> 5
      [] kind = "type"        -> 6
      [] kind = "enum"        -> 7
      [] kind = "struct"      -> 8
      [] kind = "union"       -> 9
      [] kind = "trait"       -> 10
      [] kind = "trait_alias" -> 11
      [] kind = "impl"        -> 12

(* C16  Order of kinds: in the rendered output, between one module's       *)
(* comment line and the next, the declarations follow the order imports,   *)
(* statics, constants, functions, macros, aliases, enums, records, unions, *)
(* interfaces, interface aliases, implementations.                         *)
C16_KindOrder ==
    Rendered =>
        \A i \in DOMAIN text :
            (i + 1 \in DOMAIN text /\ text[i].kind # "comment"
                /\ text[i + 1].kind # "comment")
            => KindRank(text[i].kind) <= KindRank(text[i + 1].kind)

\* the record c::Point was processed before the function c::f, and the
\* output that is being written has the function before the record
C16_Witness ==
    /\ pc = "write"
    /\ Current.name = "c::f"
    /\ "c::Point" \in direct
    /\ \E i, j \in DOMAIN text :
          /\ i < j
          /\ text[i].kind = "fn"
          /\ text[j].kind = "struct"
          /\ \A k \in i..j : text[k].kind # "comment"

\* the collection of the module that holds the declarations an add_* call
\* of this kind inserts into
Held(op) ==
    CASE op = "fn"     -> building.fns
      [] op = "struct" -> building.structs
      [] op = "enum"   -> building.enums

\* the references of a declaration of this kind
RefsOf(op, item) ==
    IF op = "struct" THEN item.applcaitions ELSE item.applications

\* the positions in the history of the add_* calls of one kind and name
AddsOf(op, name) ==
    { i \in DOMAIN added : added[i].op = op /\ added[i].item.name = name }

(* C17  Named-declaration replacement: while the module is being filled,   *)
(* for every function, record or enum that was added, the module holds     *)
(* exactly one declaration of that kind and name, and its text and         *)
(* references are those of the latest add of that kind and name.           *)
C17_Replacement ==
    pc = "build" =>
        \A i \in DOMAIN added :
            added[i].op \in { "fn", "struct", "enum" } =>
                LET op == added[i].op
                    name == added[i].item.name
                    latest == CHOOSE j \in AddsOf(op, name) :
                                  \A k \in AddsOf(op, name) : k <= j
                    held == SelectSeq(Held(op), LAMBDA x : x.name = name)
                IN  /\ Len(held) = 1
                    /\ held[1].codes = added[latest].item.codes
                    /\ RefsOf(op, held[1]) = RefsOf(op, added[latest].item)

\* the annotation line for a set of markers
DeriveLine(markers) ==
    CASE markers = {}                   -> ""
      [] markers = { "Clone" }          -> "#[derive(Clone)]\n"
      [] markers = { "Debug" }          -> "#[derive(Debug)]\n"
      [] markers = { "Clone", "Debug" } -> "#[derive(Clone, Debug)]\n"

\* the markers recorded for a target after it was first added
MarkersFor(op, name) ==
    { added[i].item.derive :
        i \in { j \in DOMAIN added :
                  /\ added[j].op = "derive"
                  /\ added[j].item.name = name
                  /\ \E k \in AddsOf(op, name) : k < j } }

(* C18  Annotation merge: when the module has been closed, the text of     *)
(* every record and enum is the text it was added with, prefixed by one    *)
(* annotation line that lists once each marker recorded for it (whether    *)
(* recorded once or several times), or by nothing when no marker was       *)
(* recorded.                                                               *)
C18_DeriveMerge ==
    pc = "closed" =>
        \A op \in { "struct", "enum" } : \A k \in DOMAIN Held(op) :
            LET target == Held(op)[k]
            IN  \E j \in AddsOf(op, target.name) :
                    target.codes.text
                      = DeriveLine(MarkersFor(op, target.name))
                        \o added[j].item.codes.text

\* the module was closed after the same marker was recorded twice for the
\* record c::Point, and its text carries one line with that marker
C18_Witness ==
    /\ pc = "closed"
    /\ \E i, j \in DOMAIN added :
          /\ i < j
          /\ added[i].op = "derive" /\ added[j].op = "derive"
          /\ added[i].item = [name |-> "c::Point", derive |-> "Debug"]
          /\ added[j].item = added[i].item
          /\ \E k \in AddsOf("struct", "c::Point") : k < i
    /\ \E k \in DOMAIN building.structs :
          building.structs[k].codes.text = "#[derive(Debug)]\nstruct Point;"

(* C19  Entry points share no mutable state: no step of the run changes    *)
(* the Module list; the directSet of the entry point being processed is    *)
(* its seed set, its indirectSet once the closure is complete is the       *)
(* closure of the seed set, and its rendered text is the text computed     *)
(* from the Module list and the seed set alone, whatever entry points were *)
(* processed before it.                                                    *)
C19_NoSharedState ==
    /\ [](ClosureDone =>
            /\ direct = Current.seeds
            /\ indirect = ClosureOf(mod_contexts, Current.seeds, {}))
    /\ [](Rendered => text = ContextOf(mod_contexts, Current.seeds))
    /\ [][mod_contexts' = mod_contexts]_vars

\* the output of a later entry point is being written after an earlier
\* entry point left other sets and other text behind
C19_Witness ==
    /\ pc = "write"
    /\ entry > 1
    /\ written # {}
    /\ text = ContextOf(mod_contexts, Current.seeds)
    /\ text # ContextOf(mod_contexts, Entries[entry - 1].seeds)
    /\ ClosureOf(mod_contexts, Entries[entry - 1].seeds, {}) \ indirect # {}

\* a file of the output directory that this run wrote or created
Fresh(f) == f \in DOMAIN files /\ files[f] # << "old" >>

(* C20  Run ordering of artifacts: once this run has created or written    *)
(* any file, nothing of a previous run is left in the output directory;    *)
(* the dump of the Module list is written at most once; and when a         *)
(* per-entry context file or the name map exists, the dump has been        *)
(* written once and is in place.                                           *)
C20_RunOrdering ==
    /\ (\E f \in DOMAIN files : Fresh(f)) => \A f \in DOMAIN files : Fresh(f)
    /\ dump_writes <= 1
    /\ ((\E n \in EntryNames : Fresh(OutputPath(n))) \/ Fresh(NameMapPath))
          => /\ dump_writes = 1
             /\ files[DumpPath] = << "dump" >>
    /\ pc = "done" => dump_writes = 1

\* a run over the output directory of a previous run has ended
C20_Witness ==
    /\ pc = "done"
    /\ removed
    /\ dump_writes = 1
    /\ files[DumpPath] = << "dump" >>
    /\ Fresh(NameMapPath)

(* C21  Demotion heuristic: in the rendered output of an entry point, an   *)
(* implementation-block method that is in indirectSet but not in directSet *)
(* and whose declared return type mentions neither the implementing type   *)
(* nor Self (a method that declares no return type included) appears in    *)
(* its block with an empty body and never with the body of its source text *)
(* (given that the text of the block and of the method parses).            *)
C21_Demotion ==
    Rendered =>
        \A m \in Mods : \A t \in DOMAIN m.impls : \A j \in DOMAIN m.impls[t].fns :
            LET impl_item == m.impls[t]
                impl_fn == impl_item.fns[j]
            IN  /\ impl_fn.name \in indirect \ direct
                /\ ~ MentionsTarget(impl_fn.codes, impl_item.struct_name)
                /\ impl_item.codes.valid
                /\ impl_fn.codes.valid
                => /\ StubFn(impl_fn.codes) \in RenderedImplMembers(impl_item.codes.text)
                   /\ FullFn(impl_fn.codes) \notin RenderedImplMembers(impl_item.codes.text)

\* an interface method as rendered with the default body of its source text
FullTraitFn(codes) ==
    [kind |-> "fn",
     item |-> [sig |-> [ident |-> codes.sig, output |-> codes.output],
               default |-> codes.default]]

\* the members of the rendered interfaces with this header
RenderedTraitMembers(header) ==
    UNION { Range(text[i].item.items) :
              i \in { j \in DOMAIN text :
                        text[j].kind = "trait" /\ text[j].item.text = header } }

(* C22  Interface default methods of the indirect pass: in the rendered    *)
(* output of an entry point, a default method of an interface, where the   *)
(* method's name or the interface's name is in indirectSet and neither is  *)
(* in directSet, appears in its interface with the default body of its     *)
(* source text (given that the text of the interface and of the method     *)
(* parses).                                                                *)
C22_TraitDefaultRetained ==
    Rendered =>
        \A m \in Mods : \A t \in DOMAIN m.traits : \A j \in DOMAIN m.traits[t].fns :
            LET trait_item == m.traits[t]
                trait_fn == trait_item.fns[j]
            IN  /\ { trait_fn.name, trait_item.name } \cap indirect # {}
                /\ { trait_fn.name, trait_item.name } \cap direct = {}
                /\ IsSome(trait_fn.codes.default)
                /\ trait_fn.codes.default[1] # << >>
                /\ trait_item.codes.valid
                /\ trait_fn.codes.valid
                => FullTraitFn(trait_fn.codes)
                      \in RenderedTraitMembers(trait_item.codes.text)

\* the names of directSet and indirectSet that several declarations match
MultiplyMatched ==
    { n \in direct \cup indirect : Len(AllMatches(mod_contexts, n, TRUE)) >= 2 }

(* C23  Multiple matches: for a name of directSet or indirectSet that      *)
(* several declarations match, once the closure is complete the references *)
(* of every matching declaration are in indirectSet, and once both passes  *)
(* are complete every matching declaration whose text parses stands in a   *)
(* bucket of its owning module.                                            *)
C23_MultipleMatches ==
    /\ ClosureDone =>
          \A n \in MultiplyMatched : DeclRefs(mod_contexts, n) \subseteq indirect
    /\ Assembled =>
          \A n \in MultiplyMatched :
              LET all == AllMatches(mod_contexts, n, TRUE)
              IN  \A i \in DOMAIN all :
                      IsSome(all[i]) => Len(Occurrences(syn_files, all[i][1])) >= 1

\* the shells of one interface or implementation block that the direct pass
\* left in the buckets of the block's module
ShellsOf(mod_name, kind, name) ==
    Occurrences(after_direct,
                [mod_name |-> mod_name,
                 app |-> [kind |-> kind, item |-> [name |-> name]]])

\* the direct pass of the current entry point is complete
DirectDone == pc \in { "indirect", "emit", "create", "write" }

(* C24  Member with shell: when the direct pass is complete, for every     *)
(* implementation block and interface of which directSet names a method    *)
(* (and whose text parses), the bucket of its module holds exactly one     *)
(* shell of the block, the shell holds every named method with the body of *)
(* its source text, and, when directSet does not name the block itself,    *)
(* the shell holds no associated type, no associated constant and no       *)
(* method that directSet does not name.                                    *)
C24_MemberWithShell ==
    DirectDone =>
        /\ \A m \in Mods : \A t \in DOMAIN m.impls :
              LET impl_item == m.impls[t]
                  named == { j \in DOMAIN impl_item.fns :
                               /\ impl_item.fns[j].name \in direct
                               /\ impl_item.fns[j].codes.valid }
                  shells == ShellsOf(m.name, "Impl", impl_item.name)
              IN  named # {} /\ impl_item.codes.valid =>
                    /\ Len(shells) = 1
                    /\ \A j \in named :
                          [name |-> impl_item.fns[j].name,
                           item |-> ParseFn(impl_item.fns[j].codes)[1]]
                             \in Range(shells[1].fns)
                    /\ impl_item.struct_name \notin direct =>
                          /\ shells[1].types = << >>
                          /\ shells[1].consts = << >>
                          /\ \A k \in DOMAIN shells[1].fns :
                                shells[1].fns[k].name \in direct
        /\ \A m \in Mods : \A t \in DOMAIN m.traits :
              LET trait_item == m.traits[t]
                  named == { j \in DOMAIN trait_item.fns :
                               /\ trait_item.fns[j].name \in direct
                               /\ trait_item.fns[j].codes.valid }
                  shells == ShellsOf(m.name, "Trait", trait_item.name)
              IN  named # {} /\ trait_item.codes.valid =>
                    /\ Len(shells) = 1
                    /\ \A j \in named :
                          [name |-> trait_item.fns[j].name,
                           item |-> ParseTraitFn(trait_item.fns[j].codes)[1]]
                             \in Range(shells[1].fns)
                    /\ trait_item.name \notin direct =>
                          /\ shells[1].types = << >>
                          /\ shells[1].consts = << >>
                          /\ \A k \in DOMAIN shells[1].fns :
                                shells[1].fns[k].name \in direct

\* the rendered blocks of one kind with this header
RenderedBlocks(kind, header) ==
    { text[i].item : i \in { j \in DOMAIN text :
                               text[j].kind = kind /\ text[j].item.text = header } }

\* a rendered block holds an associated type or constant with this text
HoldsMember(block, kind, codes) ==
    [kind |-> kind, item |-> [text |-> codes.text]] \in Range(block.items)

\* a rendered block holds a method with this signature, whatever its body
HoldsFn(block, codes) ==
    \E k \in DOMAIN block.items :
        /\ block.items[k].kind = "fn"
        /\ block.items[k].item.sig = [ident |-> codes.sig, output |-> codes.output]

\* the implementation blocks of the source whose recorded form is in the
\* Module list
SourceImpls ==
    { b \in { TraitImplBlock(layout) : layout \in { "same", "child" } } :
        \E m \in Mods : \E t \in DOMAIN m.impls : m.impls[t] = VisitImpl(b) }

(* C25  Complete member lists: in the rendered output of an entry point,   *)
(* an interface whose name is in directSet, and an implementation block    *)
(* whose target type or implemented interface is in directSet, is rendered *)
(* with every associated type, associated constant and method of the       *)
(* original block.                                                         *)
C25_CompleteMembers ==
    Rendered =>
        /\ \A m \in Mods : \A t \in DOMAIN m.traits :
              LET trait_item == m.traits[t]
              IN  trait_item.name \in direct =>
                    \E block \in RenderedBlocks("trait", trait_item.codes.text) :
                        /\ \A k \in DOMAIN trait_item.types :
                              HoldsMember(block, "type", trait_item.types[k])
                        /\ \A k \in DOMAIN trait_item.consts :
                              HoldsMember(block, "const", trait_item.consts[k])
                        /\ \A k \in DOMAIN trait_item.fns :
                              HoldsFn(block, trait_item.fns[k].codes)
        /\ \A m \in Mods : \A t \in DOMAIN m.impls :
              LET impl_item == m.impls[t]
              IN  ({ impl_item.struct_name } \cup Range(impl_item.trait_name))
                     \cap direct # {} =>
                    \E block \in RenderedBlocks("impl", impl_item.codes.text) :
                        /\ \A k \in DOMAIN impl_item.consts :
                              HoldsMember(block, "const", impl_item.consts[k])
                        /\ \A k \in DOMAIN impl_item.fns :
                              HoldsFn(block, impl_item.fns[k].codes)
        /\ \A a_impl \in SourceImpls :
              ({ a_impl.struct_name } \cup Range(a_impl.trait_name))
                 \cap direct # {} =>
                    \E block \in RenderedBlocks("impl", a_impl.codes.text) :
                        \A k \in DOMAIN a_impl.items :
                            CASE a_impl.items[k].kind = "Type" ->
                                    HoldsMember(block, "type", a_impl.items[k].codes)
                              [] a_impl.items[k].kind = "Const" ->
                                    HoldsMember(block, "const", a_impl.items[k].codes)
                              [] a_impl.items[k].kind = "Fn" ->
                                    HoldsFn(block, a_impl.items[k].codes)

\* an entry point of the current run is being processed
Processing == pc \in { "closure", "direct", "indirect", "emit", "create", "write" }

\* the seed sets the specification gives a name, one for every function or
\* method declared under that name
SeedSets(name) ==
    UNION { { { name } \cup m.fns[j].applications \cup m.applications :
                j \in { k \in DOMAIN m.fns : m.fns[k].name = name } }
            \cup UNION { { { name } \cup m.traits[t].fns[j].applications
                             \cup m.traits[t].applications \cup m.applications :
                             j \in { k \in DOMAIN m.traits[t].fns :
                                       m.traits[t].fns[k].name = name } }
                         : t \in DOMAIN m.traits }
            \cup UNION { { { name } \cup m.impls[t].fns[j].applications
                             \cup m.impls[t].applications \cup m.applications :
                             j \in { k \in DOMAIN m.impls[t].fns :
                                       m.impls[t].fns[k].name = name } }
                         : t \in DOMAIN m.impls }
          : m \in Mods }

(* C26  Seed set: while an entry point is processed, directSet is the      *)
(* union of the entry point's own name, its own references, the references *)
(* of its enclosing interface or implementation block (none for a free     *)
(* function) and the references of its module; it contains the entry       *)
(* point's own name; and once the closure is complete it is a subset of    *)
(* indirectSet.                                                            *)
C26_SeedSet ==
    /\ Processing =>
          /\ direct \in SeedSets(Current.name)
          /\ Current.name \in direct
    /\ ClosureDone => direct \subseteq indirect

\* the output of a method of an implementation block is being written, its
\* seed set holds the reference of the block and the reference of the
\* module, and the closure added names beyond the seed set
C26_Witness ==
    /\ pc = "write"
    /\ Current.name = "c::{impl#0}::helper"
    /\ "c::Point" \in direct
    /\ "c::g" \in direct
    /\ direct \subseteq indirect
    /\ indirect \ direct # {}

\* a member of a shell carries a body with statements
HasBody(member) ==
    IF "block" \in DOMAIN member.item
    THEN member.item.block # << >>
    ELSE IsSome(member.item.default) /\ member.item.default[1] # << >>

\* every member that this version of a block brings with a body stands with
\* that body in the shell of the block in the buckets
BodiesKept(found) ==
    found.app.kind \in { "Trait", "Impl" } =>
        LET shells == Occurrences(syn_files, found)
        IN  /\ Len(shells) = 1
            /\ \A j \in DOMAIN found.app.item.fns :
                  HasBody(found.app.item.fns[j])
                  => found.app.item.fns[j] \in Range(shells[1].fns)

\* the shells of a bucket keep every member that carries a body
ShellsKeepBodies(before, after) ==
    \A k \in DOMAIN before :
        /\ k \in DOMAIN after
        /\ after[k].name = before[k].name
        /\ \A j \in DOMAIN before[k].fns :
              HasBody(before[k].fns[j]) => after[k].fns[j] = before[k].fns[j]

\* a step of an assembly pass keeps the buckets and, in them, every member
\* that carries a body
StepKeepsBodies ==
    pc \in { "direct", "indirect" } =>
        \A b \in DOMAIN syn_files :
            /\ b \in DOMAIN syn_files'
            /\ ShellsKeepBodies(syn_files[b].traits, syn_files'[b].traits)
            /\ ShellsKeepBodies(syn_files[b].impls, syn_files'[b].impls)

(* C27  Body retention is monotonic within one entry point's assembly: no  *)
(* step of the direct or the indirect pass replaces a member of an         *)
(* interface or implementation shell that carries a body by another        *)
(* version; and when both passes are complete, every member that any       *)
(* version of its block brought with a body (the versions the lookups of   *)
(* the names of directSet and indirectSet returned) stands with that body  *)
(* in the one shell of the block.                                          *)
C27_BodyMonotonic ==
    /\ [][StepKeepsBodies]_vars
    /\ [](Assembled =>
            /\ \A n \in direct :
                  LET found == GetDirectItem(mod_contexts, n)
                  IN  IsSome(found) => BodiesKept(found[1])
            /\ \A n \in indirect \ direct :
                  LET found == GetIndirectItem(mod_contexts, n)
                  IN  IsSome(found) => BodiesKept(found[1]))

\* the output is being written after the shell that held helper() with its
\* body met the version of the block in which helper() has an empty body
C27_Witness ==
    /\ pc = "write"
    /\ { "c::{impl#0}::helper", "c::{impl#0}::new" } \subseteq direct
    /\ \E j \in DOMAIN GetDirectItem(mod_contexts, "c::{impl#0}::new")[1].app.item.fns :
          LET member == GetDirectItem(mod_contexts, "c::{impl#0}::new")[1].app.item.fns[j]
          IN  member.name = "c::{impl#0}::helper" /\ ~ HasBody(member)
    /\ \E b \in DOMAIN syn_files : \E k \in DOMAIN syn_files[b].impls :
          \E j \in DOMAIN syn_files[b].impls[k].fns :
              /\ syn_files[b].impls[k].fns[j].name = "c::{impl#0}::helper"
              /\ HasBody(syn_files[b].impls[k].fns[j])

\* the open and the closed modules of the walk
WalkMods == Range(mod_stack) \cup Range(mod_contexts)

\* the collection of a module that holds declarations of this kind
HeldIn(m, op) == IF op = "fn" THEN m.fns ELSE m.structs

\* the markers recorded for a record after it was added
WalkMarkers(name) ==
    { added[i].item.derive :
        i \in { j \in DOMAIN added :
                  /\ added[j].op = "derive"
                  /\ added[j].item.name = name
                  /\ \E k \in DOMAIN added :
                        k < j /\ added[k].op = "struct" /\ added[k].item.name = name } }

\* what holds in every state of the walk
WalkState ==
    /\ \A i, j \in DOMAIN entered : i # j => entered[i] # entered[j]
    /\ [i \in DOMAIN mod_stack |-> mod_stack[i].name] = OpenNames
    /\ Len(mod_contexts) + Len(mod_stack) = Len(entered)
    /\ Range(ClosedNames) \subseteq Range(entered)
    /\ pc = "walked" =>
          /\ mod_stack = << >>
          /\ entered # << >>
          /\ Range(ClosedNames) = Range(entered)
    /\ \A i \in DOMAIN added :
          added[i].op \in { "fn", "struct" } =>
              \A m \in WalkMods :
                  (m.name = added[i].mod)
                  <=> (\E k \in DOMAIN HeldIn(m, added[i].op) :
                          HeldIn(m, added[i].op)[k].name = added[i].item.name)
    /\ \A i \in DOMAIN mod_stack : \A k \in DOMAIN mod_stack[i].structs :
          mod_stack[i].structs[k].codes.text = "struct P;"
    /\ \A i \in DOMAIN mod_contexts : \A k \in DOMAIN mod_contexts[i].structs :
          mod_contexts[i].structs[k].codes.text
            = DeriveLine(WalkMarkers(mod_contexts[i].structs[k].name)) \o "struct P;"

\* what holds of every step of the walk
WalkStep ==
    /\ \A i \in DOMAIN mod_contexts :
          i \in DOMAIN mod_contexts' /\ mod_contexts'[i] = mod_contexts[i]
    /\ mod_contexts' # mod_contexts =>
          /\ Len(mod_contexts') = Len(mod_contexts) + 1
          /\ Last(mod_contexts').name = Last(OpenNames)
    /\ added' # added => Last(added').mod = Last(mod_stack).name

(* C28  Module lifecycle during the walk: every module that is entered is  *)
(* closed exactly once (when the walk is over, every entered module is     *)
(* closed, and no name is closed twice); a close takes the module that was *)
(* entered last among the open ones; every declaration is recorded in the  *)
(* innermost open module and in no other; the text of a record carries no  *)
(* annotation line while its module is open and, once the module is        *)
(* closed, exactly one line with the markers recorded for it; and no step  *)
(* changes a module that is closed.                                        *)
C28_ModuleLifecycle ==
    /\ []WalkState
    /\ [][WalkStep]_vars

\* the walk is over for a crate with a module inside a module and a second
\* child module; a record of c::a carries its annotation line, and the
\* root module got a function after c::a was closed
C28_Witness ==
    /\ pc = "walked"
    /\ { "c::a::b", "c::d" } \subseteq Range(entered)
    /\ \E i \in DOMAIN mod_contexts : \E k \in DOMAIN mod_contexts[i].structs :
          /\ mod_contexts[i].name = "c::a"
          /\ mod_contexts[i].structs[k].codes.text = "#[derive(Debug)]\nstruct P;"
    /\ \E i, j \in DOMAIN added :
          /\ i < j
          /\ added[i].mod = "c::a"
          /\ added[j].mod = "c" /\ added[j].op = "fn"
    /\ Last(mod_contexts).name = "c"
    /\ \E k \in DOMAIN Last(mod_contexts).fns : Last(mod_contexts).fns[k].name = "c::f"

----------------------------------------------------------------------------
(* C29  Closure exactness: at every step of the worklist and afterwards,   *)
(* every name in the pending set or in indirectSet is a seed name or is    *)
(* reachable from a seed name over references edges, so the final          *)
(* indirectSet holds no name outside the transitive closure of directSet.  *)
C29_ClosureExact ==
    Processing => (left \cup indirect) \subseteq Reachable(mod_contexts, direct)

\* the closure is complete, it went beyond the seed set, and a name of the
\* program stayed outside it
C29_Witness ==
    /\ ClosureDone
    /\ indirect \ direct # {}
    /\ \E i \in DOMAIN mod_contexts : \E k \in DOMAIN mod_contexts[i].fns :
          mod_contexts[i].fns[k].name \notin indirect

----------------------------------------------------------------------------
\* the functions rendered at the top level of a module
RenderedTopFns ==
    { text[i] : i \in { j \in DOMAIN text : text[j].kind = "fn" } }

\* the reference sets of the functions and methods that text renders with
\* the body of their source text
RetainedBodyRefs ==
    UNION { { m.fns[k].applications :
                k \in { j \in DOMAIN m.fns : FullFn(m.fns[j].codes) \in RenderedTopFns } }
            \cup UNION { { m.impls[t].fns[k].applications :
                             k \in { j \in DOMAIN m.impls[t].fns :
                                       FullFn(m.impls[t].fns[j].codes)
                                         \in RenderedImplMembers(m.impls[t].codes.text) } }
                         : t \in DOMAIN m.impls }
            \cup UNION { { m.traits[t].fns[k].applications :
                             k \in { j \in DOMAIN m.traits[t].fns :
                                       /\ IsSome(m.traits[t].fns[j].codes.default)
                                       /\ FullTraitFn(m.traits[t].fns[j].codes)
                                            \in RenderedTraitMembers(m.traits[t].codes.text) } }
                         : t \in DOMAIN m.traits }
          : m \in Mods }

(* C30  Rendered bodies are closed under references: in the rendered       *)
(* output of an entry point, every name in the reference set of a function *)
(* or method that is rendered with its body is in indirectSet.             *)
C30_BodiesClosed ==
    Rendered => \A refs \in RetainedBodyRefs : refs \subseteq indirect


====
